---------------------------- MODULE Spec2Model ----------------------------
(***************************************************************************)
(* A state-machine model of libs/vkd3d-shader/vkd3d_shader_main.c: the     *)
(* scan pass (vkd3d_shader_scan), its control-flow verifier and resource   *)
(* scanner (vkd3d_shader_scan_instruction) and the message context.        *)
(*                                                                         *)
(* Pointers into an array are modelled as 1-based indices, NULL as 0.      *)
(***************************************************************************)
EXTENDS Integers, Sequences, FiniteSets, TLC

VARIABLES
    pc,                   \* position of vkd3d_shader_scan: "loop", "returned", "crashed"
    pass,                 \* the vkd3d_shader_scan call in progress: its number (1 or 2),
                          \* whether the shader is read as an open-ended stream, and
                          \* whether the second call got the first call's structure
    ptr,                  \* parser.ptr: instructions read so far in this pass
    code,                 \* the instructions of compile_info->source, when fixed beforehand
    instruction,          \* the local `instruction` of vkd3d_shader_scan
    context,              \* the local `struct vkd3d_shader_scan_context context`
    scan_descriptor_info, \* the caller's struct vkd3d_shader_scan_descriptor_info
    ret,                  \* the local `ret` / the value returned
    messages,             \* the caller's *messages
    nesting,              \* the nesting of the stream read so far (input side)
    declared,             \* the declarations read so far, in stream order (input side)
    first_scan,           \* what the first call handed back, kept by the caller
    reserve_failed,       \* the arrays whose vkd3d_array_reserve failed while the last
                          \* instruction was scanned (input side)
    compile_info,         \* the caller's struct vkd3d_shader_compile_info, and whether
                          \* the caller passed a messages pointer
    parser,               \* the local `parser`: "uninitialised", "initialised", "destroyed"
    released,             \* how often each resource of the call was released
    string_buffer,        \* a struct vkd3d_string_buffer
    appended,             \* the texts the string buffer was asked to print (input side)
    caller,               \* who called vkd3d_shader_scan: "application" or
                          \* "vkd3d_shader_compile"
    message_context,      \* the local `message_context` of vkd3d_shader_compile
    spirv_compiler,       \* the backend object of vkd3d_shader_compile: its state and
                          \* the calls made on it
    peer,                 \* a second call of vkd3d_shader_scan, on another thread,
                          \* while that thread does not run: its request and locals
    process,              \* what outlives a call: the static variables of
                          \* vkd3d_shader_dump_shader and vkd3d_shader_dump_blob, the
                          \* environment, and the calls made so far
    vprintf               \* a vkd3d_string_buffer_vprintf call followed one pass of
                          \* its loop at a time: the sizes of the buffer as unsigned
                          \* int, the result of vsnprintf, the position in the loop

vars == <<pc, pass, ptr, code, instruction, context, scan_descriptor_info, ret,
          messages, nesting, declared, first_scan, reserve_failed,
          compile_info, parser, released, string_buffer, appended,
          caller, message_context, spirv_compiler, peer, process, vprintf>>

\* the variables of a call of vkd3d_shader_scan
scan_vars == <<pc, pass, ptr, code, instruction, context, scan_descriptor_info, ret,
               messages, nesting, declared, first_scan, reserve_failed,
               compile_info, parser, released>>

\* the variables of the string buffer
buffer_vars == <<string_buffer, appended, vprintf>>

\* the variables that vkd3d_shader_scan has no access to
apart == <<string_buffer, appended, caller, message_context, spirv_compiler, peer,
           process, vprintf>>

----------------------------------------------------------------------------
(* Bounds of the model.                                                     *)

\* longest instruction stream a pass reads
MaxInstructions == 6

\* most calls of vkd3d_shader_compile a process makes
MaxCompiles == 3

\* deepest control-flow nesting a stream opens
MaxDepth == 3

\* most declarations a stream makes
MaxDeclarations == 2

\* longest shader of a fixed set of shaders that is enumerated in full
MaxProgramLen == 3

\* largest register id of a UAV
MaxUavId == 1

\* most calls of vkd3d_string_buffer_vprintf on one buffer
MaxAppends == 3

----------------------------------------------------------------------------
(* Status codes, block types, log levels.                                   *)

VKD3D_OK == "VKD3D_OK"
VKD3D_ERROR == "VKD3D_ERROR"
VKD3D_ERROR_OUT_OF_MEMORY == "VKD3D_ERROR_OUT_OF_MEMORY"
VKD3D_ERROR_INVALID_ARGUMENT == "VKD3D_ERROR_INVALID_ARGUMENT"
VKD3D_ERROR_INVALID_SHADER == "VKD3D_ERROR_INVALID_SHADER"

VKD3D_SHADER_BLOCK_IF == "BLOCK_IF"
VKD3D_SHADER_BLOCK_LOOP == "BLOCK_LOOP"
VKD3D_SHADER_BLOCK_SWITCH == "BLOCK_SWITCH"

VKD3D_SHADER_ERROR_TPF_MISMATCHED_CF == "TPF_MISMATCHED_CF"

VKD3D_SHADER_STRUCTURE_TYPE_COMPILE_INFO == "VKD3D_SHADER_STRUCTURE_TYPE_COMPILE_INFO"
VKD3D_SHADER_SOURCE_DXBC_TPF == "VKD3D_SHADER_SOURCE_DXBC_TPF"
VKD3D_SHADER_TARGET_SPIRV_BINARY == "VKD3D_SHADER_TARGET_SPIRV_BINARY"

\* enum vkd3d_shader_log_level, lowest first; vkd3d_shader_verror compares
\* the context's level with VKD3D_SHADER_LOG_ERROR.
LogLevelOrder == <<"LOG_NONE", "LOG_ERROR", "LOG_WARNING", "LOG_INFO">>

VKD3D_SHADER_LOG_ERROR == "LOG_ERROR"

LogRank(level) == CHOOSE i \in 1..Len(LogLevelOrder) : LogLevelOrder[i] = level

\* the log levels a request is given in the model: one below ERROR, one not
LogLevels == {"LOG_NONE", "LOG_ERROR"}

\* the source name of the request (NULL becomes "<anonymous>")
SourceName == "<anonymous>"

----------------------------------------------------------------------------
(* String buffer.  buffer.buffer is the allocation, byte by byte            *)
(* (buffer[i - 1] in the source is buffer[i] here).                         *)

\* buffer->buffer_size = 32
StringBufferInitialSize == 32

\* the terminating '\0'
NUL == "NUL"

\* a byte of an allocation that was never written
Indeterminate == "?"

vkd3d_string_buffer_clear(b) ==
    [b EXCEPT !.buffer[1] = NUL, !.content_size = 0]

\* vkd3d_string_buffer_init (the allocation succeeds)
vkd3d_string_buffer_init ==
    vkd3d_string_buffer_clear(
        [buffer |-> [i \in 1..StringBufferInitialSize |-> Indeterminate],
         buffer_size |-> StringBufferInitialSize,
         content_size |-> 0])

\* vsnprintf(&buffer->buffer[buffer->content_size], rem, ...): the bytes of
\* the allocation after at most rem - 1 characters of text and a '\0' were
\* written; its result is Len(text)
vsnprintf(b, rem, text) ==
    LET n == IF Len(text) < rem THEN Len(text) ELSE rem - 1
    IN  [i \in 1..Len(b.buffer) |->
            IF rem > 0 /\ i > b.content_size /\ i <= b.content_size + n
            THEN text[i - b.content_size]
            ELSE IF rem > 0 /\ i = b.content_size + n + 1 THEN NUL
            ELSE b.buffer[i]]

\* a new size that is just the room the text needs
GrownSizeExact(new_buffer_size, content_size, rc) == content_size + rc + 1

\* while (rc > 0 && rc >= new_buffer_size - buffer->content_size) new_buffer_size *= 2
RECURSIVE GrownSize(_, _, _)
GrownSize(new_buffer_size, content_size, rc) ==
    IF rc > 0 /\ rc >= new_buffer_size - content_size
    THEN GrownSize(new_buffer_size * 2, content_size, rc)
    ELSE new_buffer_size

\* a resize that leaves the buffer as vsnprintf left it when vkd3d_realloc fails
ResizeKeepsPartial(b, rc, fails) ==
    LET new_buffer_size == GrownSize(b.buffer_size * 2, b.content_size, rc)
    IN  IF fails
        THEN [ok |-> FALSE, buffer |-> b]
        ELSE [ok |-> TRUE,
              buffer |-> [b EXCEPT
                  !.buffer = @ \o [i \in 1..(new_buffer_size - b.buffer_size) |-> Indeterminate],
                  !.buffer_size = new_buffer_size]]

\* vkd3d_string_buffer_resize: [ok, buffer]; vkd3d_realloc keeps the bytes
\* of the old allocation
vkd3d_string_buffer_resize(b, rc, fails) ==
    LET new_buffer_size == GrownSize(b.buffer_size * 2, b.content_size, rc)
    IN  IF fails
        THEN [ok |-> FALSE, buffer |-> [b EXCEPT !.buffer[b.content_size + 1] = NUL]]
        ELSE [ok |-> TRUE,
              buffer |-> [b EXCEPT
                  !.buffer = @ \o [i \in 1..(new_buffer_size - b.buffer_size) |-> Indeterminate],
                  !.buffer_size = new_buffer_size]]

\* a vprintf that keeps what fitted instead of growing the buffer
VprintfTruncating(b, text, fails) ==
    LET rem == b.buffer_size - b.content_size
        n == IF Len(text) < rem THEN Len(text) ELSE rem - 1
    IN  [ret |-> 0,
         buffer |-> [b EXCEPT !.buffer = vsnprintf(b, rem, text), !.content_size = @ + n]]

\* vkd3d_string_buffer_vprintf: [ret, buffer]; `fails` tells whether
\* vkd3d_realloc fails
RECURSIVE vkd3d_string_buffer_vprintf(_, _, _)
vkd3d_string_buffer_vprintf(b, text, fails) ==
    LET rem == b.buffer_size - b.content_size
        rc == Len(text)
        written == [b EXCEPT !.buffer = vsnprintf(b, rem, text)]
    IN  IF rc >= 0 /\ rc < rem
        THEN [ret |-> 0, buffer |-> [written EXCEPT !.content_size = @ + rc]]
        ELSE LET resized == vkd3d_string_buffer_resize(written, rc, fails)
             IN  IF ~resized.ok
                 THEN [ret |-> -1, buffer |-> resized.buffer]
                 ELSE vkd3d_string_buffer_vprintf(resized.buffer, text, fails)

\* unsigned int is 32 bits wide; a value is kept as its two 16-bit halves
HalfWord == 2 ^ 16

\* (unsigned int)n for 0 <= n <= INT_MAX
Unsigned(n) == [hi |-> n \div HalfWord, lo |-> n % HalfWord]

\* x * 2 in unsigned int
Times2(x) ==
    [hi |-> (2 * x.hi + (2 * x.lo) \div HalfWord) % HalfWord, lo |-> (2 * x.lo) % HalfWord]

\* x - y in unsigned int
Minus(x, y) ==
    LET borrow == IF x.lo < y.lo THEN 1 ELSE 0
    IN  [hi |-> (x.hi - y.hi - borrow + 2 * HalfWord) % HalfWord,
         lo |-> (x.lo - y.lo + HalfWord) % HalfWord]

\* x + y in unsigned int
Plus(x, y) ==
    [hi |-> (x.hi + y.hi + (x.lo + y.lo) \div HalfWord) % HalfWord,
     lo |-> (x.lo + y.lo) % HalfWord]

\* x < y in unsigned int
Below(x, y) == x.hi < y.hi \/ (x.hi = y.hi /\ x.lo < y.lo)

\* no vkd3d_string_buffer_vprintf call was made on the buffer that
\* vkd3d_string_buffer_init set up
NoCall ==
    [pc |-> "idle",
     buffer_size |-> Unsigned(StringBufferInitialSize),
     content_size |-> Unsigned(0),
     new_buffer_size |-> Unsigned(0),
     format |-> [error |-> FALSE, length |-> 0],
     rc |-> 0, attempts |-> 0, ret |-> 0, calls |-> 0]

\* the string that starts at bytes[1]: the bytes before the first '\0'
CString(bytes) ==
    LET terminators == {i \in 1..Len(bytes) : bytes[i] = NUL}
    IN  IF terminators = {} THEN bytes
        ELSE SubSeq(bytes, 1, (CHOOSE i \in terminators : \A j \in terminators : i <= j) - 1)

\* vkd3d_shader_message_context_copy_messages on the string buffer:
\* memcpy of content_size + 1 bytes (the allocation succeeds)
CopyMessages(b) == SubSeq(b.buffer, 1, b.content_size + 1)

\* no text was printed yet; ret is what the last call on the buffer returned
NothingAppended == [text |-> <<>>, calls |-> 0, allocated |-> TRUE, ret |-> 0]

----------------------------------------------------------------------------
(* Message context.                                                         *)

\* vkd3d_shader_message_context_init: line and column 0, an empty buffer.
\* `errors` is the history of the error codes vkd3d_shader_verror was
\* called with on this context.
vkd3d_shader_message_context_init(log_level, source_name) ==
    [log_level |-> log_level, source_name |-> source_name,
     line |-> 0, column |-> 0, messages |-> <<>>, errors |-> <<>>]

\* the local message_context of vkd3d_shader_compile before its init
NoMessageContext == vkd3d_shader_message_context_init("LOG_NONE", SourceName)

\* A process that has made no call: static bool enabled = true, static int
\* shader_id = 0, VKD3D_SHADER_DUMP_PATH not set.  `lookups` counts the
\* getenv calls, `calls` the calls of vkd3d_shader_compile begun.
FreshProcess ==
    [enabled |-> TRUE, shader_id |-> 0, path |-> FALSE, lookups |-> 0, calls |-> 1]

\* vkd3d_shader_dump_blob: id = InterlockedIncrement(&shader_id) - 1; the
\* file it writes is outside the model
vkd3d_shader_dump_blob(p) == [p EXCEPT !.shader_id = @ + 1]

\* a dump that remembers the answer of its first lookup, whatever it was
DumpShaderLookupOnce(p) ==
    IF p.lookups > 0
    THEN IF p.enabled THEN vkd3d_shader_dump_blob(p) ELSE p
    ELSE IF ~p.path
    THEN [p EXCEPT !.lookups = @ + 1, !.enabled = FALSE]
    ELSE vkd3d_shader_dump_blob([p EXCEPT !.lookups = @ + 1])

\* vkd3d_shader_dump_shader
vkd3d_shader_dump_shader(p) ==
    IF ~p.enabled THEN p
    ELSE IF ~p.path
    THEN [p EXCEPT !.lookups = @ + 1, !.enabled = FALSE]
    ELSE vkd3d_shader_dump_blob([p EXCEPT !.lookups = @ + 1])

\* no second call
NoPeer == [pc |-> "none"]

\* vkd3d_shader_compile has created no backend object
NoCompiler == [state |-> "none", handled |-> <<>>, generated |-> 0]

\* One formatted line of the buffer: "%s:%u:%u: E%04u: " or "%s: E%04u: ",
\* the message, "\n".  The prefix is kept as the values it prints.
MessageLine(mc, error, text) ==
    [prefix |-> IF mc.line # 0 THEN <<mc.source_name, mc.line, mc.column>>
                ELSE <<mc.source_name>>,
     error |-> error,
     text |-> text]

\* a record that does not look at the log level
VerrorUnfiltered(mc, error, text) ==
    [mc EXCEPT !.errors = Append(@, error),
               !.messages = Append(@, MessageLine(mc, error, text))]

\* vkd3d_shader_verror / vkd3d_shader_error
vkd3d_shader_verror(mc, error, text) ==
    IF LogRank(mc.log_level) < LogRank(VKD3D_SHADER_LOG_ERROR)
    THEN [mc EXCEPT !.errors = Append(@, error)]
    ELSE [mc EXCEPT !.errors = Append(@, error),
                    !.messages = Append(@, MessageLine(mc, error, text))]

vkd3d_shader_error(ctx, error, text) ==
    [ctx EXCEPT !.message_context = vkd3d_shader_verror(@, error, text)]

\* vkd3d_shader_message_context_copy_messages (the allocation succeeds)
vkd3d_shader_message_context_copy_messages(mc) == mc.messages

\* The texts of the control-flow diagnostics, word by word.
TextElse == <<"Encountered", "else", "instruction", "without", "corresponding", "if", "block.">>
TextEndif == <<"Encountered", "endif", "instruction", "without", "corresponding", "if", "block.">>
TextEndloop == <<"Encountered", "endloop", "instruction", "without", "corresponding", "loop", "block.">>
TextEndswitch == <<"Encountered", "endswitch", "instruction", "without", "corresponding", "switch", "block.">>
TextCase == <<"Encountered", "case", "instruction", "outside", "switch", "block.">>
TextDefault == <<"Encountered", "default", "instruction", "outside", "switch", "block.">>
TextDuplicateDefault == <<"Encountered", "duplicate", "default", "instruction", "inside", "the", "current", "switch", "block.">>
TextBreak == <<"Encountered", "break", "instruction", "outside", "breakable", "block.">>
TextBreakp == <<"Encountered", "breakp", "instruction", "outside", "loop.">>
TextContinue == <<"Encountered", "continue", "instruction", "outside", "loop.">>

----------------------------------------------------------------------------
(* Scan context and the control-flow stack.                                 *)

\* vkd3d_shader_scan_context_init: memset 0, the caller's descriptor info
\* (has_info: the pointer is not NULL), a fresh message context
vkd3d_shader_scan_context_init(has_info, log_level, source_name) ==
    [scan_descriptor_info |-> has_info,
     message_context |-> vkd3d_shader_message_context_init(log_level, source_name),
     cf_info |-> <<>>,
     uav_ranges |-> <<>>]

\* a frame as memset(cf_info, 0, sizeof(*cf_info)) leaves it: type 0 is BLOCK_IF
ZeroCfInfo ==
    [type |-> VKD3D_SHADER_BLOCK_IF, inside_block |-> FALSE, has_default |-> FALSE]

cf_info_count(ctx) == Len(ctx.cf_info)

vkd3d_shader_scan_get_current_cf_info(ctx) ==
    IF cf_info_count(ctx) = 0 THEN 0 ELSE cf_info_count(ctx)

\* vkd3d_shader_scan_push_cf_info: the new context and the frame pointer,
\* NULL (0) and nothing pushed when vkd3d_array_reserve fails
vkd3d_shader_scan_push_cf_info(ctx, fails) ==
    IF "cf_info" \in fails
    THEN [context |-> ctx, cf_info |-> 0]
    ELSE [context |-> [ctx EXCEPT !.cf_info = Append(@, ZeroCfInfo)],
          cf_info |-> cf_info_count(ctx) + 1]

\* a pop that takes two frames off
PopTwoFrames(ctx) ==
    [ctx EXCEPT !.cf_info = SubSeq(@, 1, Len(@) - 2)]

vkd3d_shader_scan_pop_cf_info(ctx) ==
    [ctx EXCEPT !.cf_info = SubSeq(@, 1, Len(@) - 1)]

RECURSIVE FindBreakable(_, _)
FindBreakable(cf, count) ==
    IF count = 0 THEN 0
    ELSE IF cf[count].type = VKD3D_SHADER_BLOCK_LOOP
            \/ cf[count].type = VKD3D_SHADER_BLOCK_SWITCH
         THEN count
         ELSE FindBreakable(cf, count - 1)

vkd3d_shader_scan_find_innermost_breakable_cf_info(ctx) ==
    FindBreakable(ctx.cf_info, cf_info_count(ctx))

RECURSIVE FindLoop(_, _)
FindLoop(cf, count) ==
    IF count = 0 THEN 0
    ELSE IF cf[count].type = VKD3D_SHADER_BLOCK_LOOP
         THEN count
         ELSE FindLoop(cf, count - 1)

vkd3d_shader_scan_find_innermost_loop_cf_info(ctx) ==
    FindLoop(ctx.cf_info, cf_info_count(ctx))

----------------------------------------------------------------------------
(* Instructions as the decoder hands them over.                             *)

VKD3DSPR_TEMP == "VKD3DSPR_TEMP"
VKD3DSPR_RESOURCE == "VKD3DSPR_RESOURCE"
VKD3DSPR_UAV == "VKD3DSPR_UAV"

\* a register: its file and idx[0].offset
Reg(type, id) == [type |-> type, idx |-> id]

NoDeclaration ==
    [reg |-> Reg(VKD3DSPR_TEMP, 0), register_space |-> 0, register_index |-> 0,
     resource_type |-> "VKD3D_SHADER_RESOURCE_NONE", resource_data_type |-> "NONE"]

\* an instruction without operands or declaration payload
Ins(handler_idx) ==
    [handler_idx |-> handler_idx, flags |-> {}, dst |-> <<>>, src |-> <<>>,
     declaration |-> NoDeclaration]

\* an instruction with destination and source registers
Op(handler_idx, dst, src) ==
    [Ins(handler_idx) EXCEPT !.dst = dst, !.src = src]

\* a declaration: cb, sampler, semantic, raw_resource or structured_resource
Dcl(handler_idx, flags, reg, space, index, resource_type, data_type) ==
    [Ins(handler_idx) EXCEPT
        !.flags = flags,
        !.declaration = [reg |-> reg, register_space |-> space, register_index |-> index,
                         resource_type |-> resource_type, resource_data_type |-> data_type]]

\* The part of enum VKD3D_SHADER_INSTRUCTION_HANDLER that the range tests of
\* vkd3d_shader_instruction_is_uav_read walk over, in the enum's order.
HandlerOrder ==
    <<"VKD3DSIH_ATOMIC_AND", "VKD3DSIH_ATOMIC_CMP_STORE", "VKD3DSIH_ATOMIC_IADD",
      "VKD3DSIH_ATOMIC_OR", "VKD3DSIH_ATOMIC_XOR",
      "VKD3DSIH_IMM_ATOMIC_ALLOC", "VKD3DSIH_IMM_ATOMIC_AND", "VKD3DSIH_IMM_ATOMIC_CONSUME",
      "VKD3DSIH_IMM_ATOMIC_EXCH", "VKD3DSIH_IMM_ATOMIC_XOR">>

\* handler_idx lies in first..last (both in HandlerOrder)
HandlerBetween(first, handler_idx, last) ==
    \E i, j, k \in 1..Len(HandlerOrder) :
        /\ HandlerOrder[i] = first /\ HandlerOrder[j] = handler_idx /\ HandlerOrder[k] = last
        /\ i <= j /\ j <= k

----------------------------------------------------------------------------
(* Resource scanner.  A scan state st is [context, info, ub]: the scan      *)
(* context, the caller's descriptor info that context.scan_descriptor_info  *)
(* points to, and whether undefined behaviour was executed.                 *)

UAV_READ == "VKD3D_SHADER_DESCRIPTOR_INFO_FLAG_UAV_READ"
UAV_COUNTER == "VKD3D_SHADER_DESCRIPTOR_INFO_FLAG_UAV_COUNTER"
SAMPLER_COMPARISON_MODE == "VKD3D_SHADER_DESCRIPTOR_INFO_FLAG_SAMPLER_COMPARISON_MODE"
VKD3DSI_SAMPLER_COMPARISON_MODE == "VKD3DSI_SAMPLER_COMPARISON_MODE"

TYPE_SRV == "VKD3D_SHADER_DESCRIPTOR_TYPE_SRV"
TYPE_UAV == "VKD3D_SHADER_DESCRIPTOR_TYPE_UAV"
TYPE_CBV == "VKD3D_SHADER_DESCRIPTOR_TYPE_CBV"
TYPE_SAMPLER == "VKD3D_SHADER_DESCRIPTOR_TYPE_SAMPLER"

descriptor_count(info) == Len(info.descriptors)

\* vkd3d_shader_scan_get_uav_descriptor_info: a pointer into info->descriptors
\* (descriptor_idx + 1), NULL (0) when no range has the id
RECURSIVE GetUavDescriptor(_, _, _)
GetUavDescriptor(uav_ranges, i, range_id) ==
    IF i > Len(uav_ranges) THEN 0
    ELSE IF uav_ranges[i].id = range_id
         THEN uav_ranges[i].descriptor_idx + 1
         ELSE GetUavDescriptor(uav_ranges, i + 1, range_id)

\* a lookup that takes the range id for the descriptor index
GetUavDescriptorById(ctx, range_id) ==
    IF \E i \in 1..Len(ctx.uav_ranges) : ctx.uav_ranges[i].id = range_id
    THEN range_id + 1
    ELSE 0

vkd3d_shader_scan_get_uav_descriptor_info(ctx, range_id) ==
    GetUavDescriptor(ctx.uav_ranges, 1, range_id)

\* d->flags |= flag through the pointer d: undefined when d is NULL or
\* points outside the table
OrDescriptorFlag(st, d, flag) ==
    IF d >= 1 /\ d <= descriptor_count(st.info) /\ ~st.info.freed
    THEN [st EXCEPT !.info.descriptors[d].flags = @ \cup {flag}]
    ELSE [st EXCEPT !.ub = TRUE]

\* an is_uav_read whose second range starts after IMM_ATOMIC_ALLOC
IsUavReadWithoutAlloc(ins) ==
    \/ HandlerBetween("VKD3DSIH_ATOMIC_AND", ins.handler_idx, "VKD3DSIH_ATOMIC_XOR")
    \/ HandlerBetween("VKD3DSIH_IMM_ATOMIC_AND", ins.handler_idx, "VKD3DSIH_IMM_ATOMIC_XOR")
    \/ ins.handler_idx = "VKD3DSIH_LD_UAV_TYPED"
    \/ (ins.handler_idx = "VKD3DSIH_LD_RAW" /\ ins.src[2].type = VKD3DSPR_UAV)
    \/ (ins.handler_idx = "VKD3DSIH_LD_STRUCTURED" /\ ins.src[3].type = VKD3DSPR_UAV)

\* vkd3d_shader_instruction_is_uav_read (src[1], src[2] are the second and
\* third source operands)
vkd3d_shader_instruction_is_uav_read(ins) ==
    \/ HandlerBetween("VKD3DSIH_ATOMIC_AND", ins.handler_idx, "VKD3DSIH_ATOMIC_XOR")
    \/ HandlerBetween("VKD3DSIH_IMM_ATOMIC_ALLOC", ins.handler_idx, "VKD3DSIH_IMM_ATOMIC_XOR")
    \/ ins.handler_idx = "VKD3DSIH_LD_UAV_TYPED"
    \/ (ins.handler_idx = "VKD3DSIH_LD_RAW" /\ ins.src[2].type = VKD3DSPR_UAV)
    \/ (ins.handler_idx = "VKD3DSIH_LD_STRUCTURED" /\ ins.src[3].type = VKD3DSPR_UAV)

\* a record that does not look at context->scan_descriptor_info
RecordUavReadUnchecked(st, reg) ==
    OrDescriptorFlag(st,
        vkd3d_shader_scan_get_uav_descriptor_info(st.context, reg.idx), UAV_READ)

vkd3d_shader_scan_record_uav_read(st, reg) ==
    IF ~st.context.scan_descriptor_info THEN st
    ELSE OrDescriptorFlag(st,
             vkd3d_shader_scan_get_uav_descriptor_info(st.context, reg.idx), UAV_READ)

vkd3d_shader_instruction_is_uav_counter(ins) ==
    \/ ins.handler_idx = "VKD3DSIH_IMM_ATOMIC_ALLOC"
    \/ ins.handler_idx = "VKD3DSIH_IMM_ATOMIC_CONSUME"

vkd3d_shader_scan_record_uav_counter(st, reg) ==
    IF ~st.context.scan_descriptor_info THEN st
    ELSE OrDescriptorFlag(st,
             vkd3d_shader_scan_get_uav_descriptor_info(st.context, reg.idx), UAV_COUNTER)

----------------------------------------------------------------------------
(* Declarations.  `fails` names the arrays whose vkd3d_array_reserve fails  *)
(* while the instruction is scanned.                                        *)

\* an append that writes the new descriptor over the table
AddDescriptorOverwriting(st, type, register_space, register_index, resource_type, resource_data_type, flags, fails) ==
    [st EXCEPT !.info.descriptors =
        <<[type |-> type,
           register_space |-> register_space,
           register_index |-> register_index,
           resource_type |-> resource_type,
           resource_data_type |-> resource_data_type,
           flags |-> flags,
           count |-> 1]>>]

\* vkd3d_shader_scan_add_descriptor (its result is ignored by every caller)
vkd3d_shader_scan_add_descriptor(st, type, register_space, register_index, resource_type, resource_data_type, flags, fails) ==
    IF "descriptors" \in fails THEN st
    ELSE [st EXCEPT !.info.descriptors = Append(@,
             [type |-> type,
              register_space |-> register_space,
              register_index |-> register_index,
              resource_type |-> resource_type,
              resource_data_type |-> resource_data_type,
              flags |-> flags,
              count |-> 1])]

\* vkd3d_shader_scan_add_uav_range
vkd3d_shader_scan_add_uav_range(st, id, descriptor_idx, fails) ==
    IF "uav_ranges" \in fails THEN st
    ELSE [st EXCEPT !.context.uav_ranges =
              Append(@, [id |-> id, descriptor_idx |-> descriptor_idx])]

vkd3d_shader_scan_constant_buffer_declaration(st, ins, fails) ==
    IF ~st.context.scan_descriptor_info THEN st
    ELSE vkd3d_shader_scan_add_descriptor(st, TYPE_CBV, ins.declaration.register_space,
             ins.declaration.register_index, "VKD3D_SHADER_RESOURCE_BUFFER",
             "VKD3D_SHADER_RESOURCE_DATA_UINT", {}, fails)

vkd3d_shader_scan_sampler_declaration(st, ins, fails) ==
    IF ~st.context.scan_descriptor_info THEN st
    ELSE vkd3d_shader_scan_add_descriptor(st, TYPE_SAMPLER, ins.declaration.register_space,
             ins.declaration.register_index, "VKD3D_SHADER_RESOURCE_NONE",
             "VKD3D_SHADER_RESOURCE_DATA_UINT",
             IF VKD3DSI_SAMPLER_COMPARISON_MODE \in ins.flags
             THEN {SAMPLER_COMPARISON_MODE} ELSE {},
             fails)

\* a resource declaration that puts the new descriptor in front
ResourceDeclarationPrepend(st, resource, resource_type, resource_data_type, fails) ==
    IF ~st.context.scan_descriptor_info THEN st
    ELSE LET type == IF resource.reg.type = VKD3DSPR_UAV THEN TYPE_UAV ELSE TYPE_SRV
             d == [type |-> type, register_space |-> resource.register_space,
                   register_index |-> resource.register_index,
                   resource_type |-> resource_type,
                   resource_data_type |-> resource_data_type, flags |-> {}, count |-> 1]
             added == [st EXCEPT !.info.descriptors = <<d>> \o @]
         IN  IF type = TYPE_UAV
             THEN vkd3d_shader_scan_add_uav_range(added, resource.reg.idx, 0, fails)
             ELSE added

\* vkd3d_shader_scan_resource_declaration; the range's descriptor_idx is
\* descriptor_count - 1 as it stands after the (possibly failed) append.
\* It is an unsigned int: with an empty table it is UINT_MAX, written -1 here.
vkd3d_shader_scan_resource_declaration(st, resource, resource_type, resource_data_type, fails) ==
    IF ~st.context.scan_descriptor_info THEN st
    ELSE LET type == IF resource.reg.type = VKD3DSPR_UAV THEN TYPE_UAV ELSE TYPE_SRV
             added == vkd3d_shader_scan_add_descriptor(st, type, resource.register_space,
                          resource.register_index, resource_type, resource_data_type, {}, fails)
         IN  IF type = TYPE_UAV
             THEN vkd3d_shader_scan_add_uav_range(added, resource.reg.idx,
                      descriptor_count(added.info) - 1, fails)
             ELSE added

\* a switch whose default is the unsigned integer type
ResourceDataTypeDefaultUint(data_type) ==
    CASE data_type = "VKD3D_DATA_UNORM" -> "VKD3D_SHADER_RESOURCE_DATA_UNORM"
      [] data_type = "VKD3D_DATA_SNORM" -> "VKD3D_SHADER_RESOURCE_DATA_SNORM"
      [] data_type = "VKD3D_DATA_INT" -> "VKD3D_SHADER_RESOURCE_DATA_INT"
      [] data_type = "VKD3D_DATA_UINT" -> "VKD3D_SHADER_RESOURCE_DATA_UINT"
      [] data_type = "VKD3D_DATA_FLOAT" -> "VKD3D_SHADER_RESOURCE_DATA_FLOAT"
      [] OTHER -> "VKD3D_SHADER_RESOURCE_DATA_UINT"

\* the switch of vkd3d_shader_scan_typed_resource_declaration
ResourceDataType(data_type) ==
    CASE data_type = "VKD3D_DATA_UNORM" -> "VKD3D_SHADER_RESOURCE_DATA_UNORM"
      [] data_type = "VKD3D_DATA_SNORM" -> "VKD3D_SHADER_RESOURCE_DATA_SNORM"
      [] data_type = "VKD3D_DATA_INT" -> "VKD3D_SHADER_RESOURCE_DATA_INT"
      [] data_type = "VKD3D_DATA_UINT" -> "VKD3D_SHADER_RESOURCE_DATA_UINT"
      [] data_type = "VKD3D_DATA_FLOAT" -> "VKD3D_SHADER_RESOURCE_DATA_FLOAT"
      [] OTHER -> "VKD3D_SHADER_RESOURCE_DATA_FLOAT"

vkd3d_shader_scan_typed_resource_declaration(st, ins, fails) ==
    vkd3d_shader_scan_resource_declaration(st, ins.declaration,
        ins.declaration.resource_type,
        ResourceDataType(ins.declaration.resource_data_type), fails)

----------------------------------------------------------------------------
(* vkd3d_shader_scan_instruction: the switch on handler_idx, case by case.  *)
(* A case yields [rejected, st]: whether it returned                        *)
(* VKD3D_ERROR_INVALID_SHADER, and the scan state it leaves.                *)

Accept(st) == [rejected |-> FALSE, st |-> st]

Reject(st, text) ==
    [rejected |-> TRUE,
     st |-> [st EXCEPT !.context =
                 vkd3d_shader_error(@, VKD3D_SHADER_ERROR_TPF_MISMATCHED_CF, text)]]

\* cf_info->type = type; cf_info->inside_block = inside_block through the
\* pointer vkd3d_shader_scan_push_cf_info returned: undefined when it is NULL
PushBlock(st, type, inside_block, fails) ==
    LET pushed == vkd3d_shader_scan_push_cf_info(st.context, fails)
    IN  IF pushed.cf_info = 0
        THEN Accept([st EXCEPT !.ub = TRUE])
        ELSE Accept([st EXCEPT !.context =
                 [pushed.context EXCEPT !.cf_info[pushed.cf_info].type = type,
                                        !.cf_info[pushed.cf_info].inside_block = inside_block]])

ScanIF(st, fails) == PushBlock(st, VKD3D_SHADER_BLOCK_IF, TRUE, fails)

\* an ELSE that takes whatever block is on top
ScanELSEAnyBlock(st) ==
    LET cf == vkd3d_shader_scan_get_current_cf_info(st.context)
    IN  IF cf = 0
        THEN Reject(st, TextElse)
        ELSE Accept([st EXCEPT !.context.cf_info[cf].inside_block = TRUE])

ScanELSE(st) ==
    LET cf == vkd3d_shader_scan_get_current_cf_info(st.context)
    IN  IF cf = 0 \/ st.context.cf_info[cf].type # VKD3D_SHADER_BLOCK_IF
        THEN Reject(st, TextElse)
        ELSE Accept([st EXCEPT !.context.cf_info[cf].inside_block = TRUE])

\* an ENDIF that also wants the block closed
ScanENDIFClosedOnly(st) ==
    LET cf == vkd3d_shader_scan_get_current_cf_info(st.context)
    IN  IF cf = 0 \/ st.context.cf_info[cf].type # VKD3D_SHADER_BLOCK_IF
           \/ st.context.cf_info[cf].inside_block
        THEN Reject(st, TextEndif)
        ELSE Accept([st EXCEPT !.context = vkd3d_shader_scan_pop_cf_info(@)])

ScanENDIF(st) ==
    LET cf == vkd3d_shader_scan_get_current_cf_info(st.context)
    IN  IF cf = 0 \/ st.context.cf_info[cf].type # VKD3D_SHADER_BLOCK_IF
        THEN Reject(st, TextEndif)
        ELSE Accept([st EXCEPT !.context = vkd3d_shader_scan_pop_cf_info(@)])

ScanLOOP(st, fails) == PushBlock(st, VKD3D_SHADER_BLOCK_LOOP, FALSE, fails)

\* an ENDLOOP that pops whatever block is on top
ScanENDLOOPAnyBlock(st) ==
    LET cf == vkd3d_shader_scan_get_current_cf_info(st.context)
    IN  IF cf = 0
        THEN Reject(st, TextEndloop)
        ELSE Accept([st EXCEPT !.context = vkd3d_shader_scan_pop_cf_info(@)])

ScanENDLOOP(st) ==
    LET cf == vkd3d_shader_scan_get_current_cf_info(st.context)
    IN  IF cf = 0 \/ st.context.cf_info[cf].type # VKD3D_SHADER_BLOCK_LOOP
        THEN Reject(st, TextEndloop)
        ELSE Accept([st EXCEPT !.context = vkd3d_shader_scan_pop_cf_info(@)])

ScanSWITCH(st, fails) == PushBlock(st, VKD3D_SHADER_BLOCK_SWITCH, FALSE, fails)

\* an ENDSWITCH that ignores inside_block
ScanENDSWITCHIgnoringOpen(st) ==
    LET cf == vkd3d_shader_scan_get_current_cf_info(st.context)
    IN  IF cf = 0 \/ st.context.cf_info[cf].type # VKD3D_SHADER_BLOCK_SWITCH
        THEN Reject(st, TextEndswitch)
        ELSE Accept([st EXCEPT !.context = vkd3d_shader_scan_pop_cf_info(@)])

ScanENDSWITCH(st) ==
    LET cf == vkd3d_shader_scan_get_current_cf_info(st.context)
    IN  IF cf = 0 \/ st.context.cf_info[cf].type # VKD3D_SHADER_BLOCK_SWITCH
           \/ st.context.cf_info[cf].inside_block
        THEN Reject(st, TextEndswitch)
        ELSE Accept([st EXCEPT !.context = vkd3d_shader_scan_pop_cf_info(@)])

ScanCASE(st) ==
    LET cf == vkd3d_shader_scan_get_current_cf_info(st.context)
    IN  IF cf = 0 \/ st.context.cf_info[cf].type # VKD3D_SHADER_BLOCK_SWITCH
        THEN Reject(st, TextCase)
        ELSE Accept([st EXCEPT !.context.cf_info[cf].inside_block = TRUE])

\* a DEFAULT that never sets has_default
ScanDEFAULTForgetful(st) ==
    LET cf == vkd3d_shader_scan_get_current_cf_info(st.context)
    IN  IF cf = 0 \/ st.context.cf_info[cf].type # VKD3D_SHADER_BLOCK_SWITCH
        THEN Reject(st, TextDefault)
        ELSE IF st.context.cf_info[cf].has_default
             THEN Reject(st, TextDuplicateDefault)
             ELSE Accept([st EXCEPT !.context.cf_info[cf].inside_block = TRUE])

ScanDEFAULT(st) ==
    LET cf == vkd3d_shader_scan_get_current_cf_info(st.context)
    IN  IF cf = 0 \/ st.context.cf_info[cf].type # VKD3D_SHADER_BLOCK_SWITCH
        THEN Reject(st, TextDefault)
        ELSE IF st.context.cf_info[cf].has_default
             THEN Reject(st, TextDuplicateDefault)
             ELSE Accept([st EXCEPT !.context.cf_info[cf].inside_block = TRUE,
                                    !.context.cf_info[cf].has_default = TRUE])

\* a BREAK that clears the top frame instead of the innermost breakable one
ScanBREAKTopFrame(st) ==
    LET cf == vkd3d_shader_scan_find_innermost_breakable_cf_info(st.context)
    IN  IF cf = 0
        THEN Reject(st, TextBreak)
        ELSE Accept([st EXCEPT !.context.cf_info[cf_info_count(st.context)].inside_block = FALSE])

ScanBREAK(st) ==
    LET cf == vkd3d_shader_scan_find_innermost_breakable_cf_info(st.context)
    IN  IF cf = 0
        THEN Reject(st, TextBreak)
        ELSE Accept([st EXCEPT !.context.cf_info[cf].inside_block = FALSE])

\* a BREAKP that is content with an enclosing Loop or Switch, as BREAK is
ScanBREAKPBreakable(st) ==
    LET cf == vkd3d_shader_scan_find_innermost_breakable_cf_info(st.context)
    IN  IF cf = 0 THEN Reject(st, TextBreakp) ELSE Accept(st)

ScanBREAKP(st) ==
    LET cf == vkd3d_shader_scan_find_innermost_loop_cf_info(st.context)
    IN  IF cf = 0 THEN Reject(st, TextBreakp) ELSE Accept(st)

ScanCONTINUE(st) ==
    LET cf == vkd3d_shader_scan_find_innermost_loop_cf_info(st.context)
    IN  IF cf = 0
        THEN Reject(st, TextContinue)
        ELSE Accept([st EXCEPT !.context.cf_info[cf].inside_block = FALSE])

\* the message of CONTINUEP is the one of CONTINUE
ScanCONTINUEP(st) ==
    LET cf == vkd3d_shader_scan_find_innermost_loop_cf_info(st.context)
    IN  IF cf = 0 THEN Reject(st, TextContinue) ELSE Accept(st)

\* a RET that clears the innermost Loop or Switch frame, as BREAK does
ScanRETBreaking(st) ==
    LET cf == vkd3d_shader_scan_find_innermost_breakable_cf_info(st.context)
    IN  IF cf = 0
        THEN Accept(st)
        ELSE Accept([st EXCEPT !.context.cf_info[cf].inside_block = FALSE])

ScanRET(st) ==
    IF cf_info_count(st.context) # 0
    THEN Accept([st EXCEPT !.context.cf_info[cf_info_count(st.context)].inside_block = FALSE])
    ELSE Accept(st)


\* the switch (instruction->handler_idx) of vkd3d_shader_scan_instruction
ScanSwitch(st, ins, fails) ==
    CASE ins.handler_idx = "VKD3DSIH_DCL_CONSTANT_BUFFER" ->
             Accept(vkd3d_shader_scan_constant_buffer_declaration(st, ins, fails))
      [] ins.handler_idx = "VKD3DSIH_DCL_SAMPLER" ->
             Accept(vkd3d_shader_scan_sampler_declaration(st, ins, fails))
      [] ins.handler_idx \in {"VKD3DSIH_DCL", "VKD3DSIH_DCL_UAV_TYPED"} ->
             Accept(vkd3d_shader_scan_typed_resource_declaration(st, ins, fails))
      [] ins.handler_idx \in {"VKD3DSIH_DCL_RESOURCE_RAW", "VKD3DSIH_DCL_UAV_RAW"} ->
             Accept(vkd3d_shader_scan_resource_declaration(st, ins.declaration,
                 "VKD3D_SHADER_RESOURCE_BUFFER", "VKD3D_SHADER_RESOURCE_DATA_UINT", fails))
      [] ins.handler_idx \in {"VKD3DSIH_DCL_RESOURCE_STRUCTURED", "VKD3DSIH_DCL_UAV_STRUCTURED"} ->
             Accept(vkd3d_shader_scan_resource_declaration(st, ins.declaration,
                 "VKD3D_SHADER_RESOURCE_BUFFER", "VKD3D_SHADER_RESOURCE_DATA_UINT", fails))
      [] ins.handler_idx = "VKD3DSIH_IF" -> ScanIF(st, fails)
      [] ins.handler_idx = "VKD3DSIH_ELSE" -> ScanELSE(st)
      [] ins.handler_idx = "VKD3DSIH_ENDIF" -> ScanENDIF(st)
      [] ins.handler_idx = "VKD3DSIH_LOOP" -> ScanLOOP(st, fails)
      [] ins.handler_idx = "VKD3DSIH_ENDLOOP" -> ScanENDLOOP(st)
      [] ins.handler_idx = "VKD3DSIH_SWITCH" -> ScanSWITCH(st, fails)
      [] ins.handler_idx = "VKD3DSIH_ENDSWITCH" -> ScanENDSWITCH(st)
      [] ins.handler_idx = "VKD3DSIH_CASE" -> ScanCASE(st)
      [] ins.handler_idx = "VKD3DSIH_DEFAULT" -> ScanDEFAULT(st)
      [] ins.handler_idx = "VKD3DSIH_BREAK" -> ScanBREAK(st)
      [] ins.handler_idx = "VKD3DSIH_BREAKP" -> ScanBREAKP(st)
      [] ins.handler_idx = "VKD3DSIH_CONTINUE" -> ScanCONTINUE(st)
      [] ins.handler_idx = "VKD3DSIH_CONTINUEP" -> ScanCONTINUEP(st)
      [] ins.handler_idx = "VKD3DSIH_RET" -> ScanRET(st)
      [] OTHER -> Accept(st)

\* for (i = 0; i < count; ++i) if (regs[i].reg.type == VKD3DSPR_UAV) record_uav_read
RECURSIVE RecordUavReads(_, _, _)
RecordUavReads(st, regs, i) ==
    IF i > Len(regs) THEN st
    ELSE RecordUavReads(
             IF regs[i].type = VKD3DSPR_UAV
             THEN vkd3d_shader_scan_record_uav_read(st, regs[i])
             ELSE st,
             regs, i + 1)

\* the checks after the switch (lines 808-823)
ScanUavAccess(st, ins) ==
    LET read == IF vkd3d_shader_instruction_is_uav_read(ins)
                THEN RecordUavReads(RecordUavReads(st, ins.dst, 1), ins.src, 1)
                ELSE st
    IN  IF vkd3d_shader_instruction_is_uav_counter(ins)
        THEN vkd3d_shader_scan_record_uav_counter(read, ins.src[1])
        ELSE read

\* vkd3d_shader_scan_instruction: [ret, st]
vkd3d_shader_scan_instruction(st, ins, fails) ==
    LET case == ScanSwitch(st, ins, fails)
    IN  IF case.rejected
        THEN [ret |-> VKD3D_ERROR_INVALID_SHADER, st |-> case.st]
        ELSE [ret |-> VKD3D_OK, st |-> ScanUavAccess(case.st, ins)]

----------------------------------------------------------------------------
(* vkd3d_shader_scan.                                                       *)

\* a loop that goes on whatever the status
NeverFailed(status) == FALSE

\* ret < 0
Failed(status) == status # VKD3D_OK

\* *messages = NULL
NullMessages == [is_null |-> TRUE, lines |-> <<>>]

\* an entry that keeps what the caller's structure held
KeepDescriptorInfo(info) == info

\* lines 854-858: the caller's structure is emptied before the pass
ResetDescriptorInfo(info) == [info EXCEPT !.descriptors = <<>>, !.freed = FALSE]

\* vkd3d_shader_free_scan_descriptor_info: frees descriptors and leaves the
\* pointer and the count as they are (descriptors is NULL, and vkd3d_free
\* has nothing to free, as long as nothing was appended)
vkd3d_shader_free_scan_descriptor_info(has_info, info) ==
    IF ~has_info \/ info.descriptors = <<>> THEN info ELSE [info EXCEPT !.freed = TRUE]

\* lines 860-878: the context as the loop finds it, at line 2, column 1
ScanContextAtLoop(has_info, log_level) ==
    [vkd3d_shader_scan_context_init(has_info, log_level, SourceName)
        EXCEPT !.message_context.line = 2, !.message_context.column = 1]

NoInstruction == Ins("none")

OpenHandlers == {"VKD3DSIH_IF", "VKD3DSIH_LOOP", "VKD3DSIH_SWITCH"}
CloseHandlers == {"VKD3DSIH_ENDIF", "VKD3DSIH_ENDLOOP", "VKD3DSIH_ENDSWITCH"}
OtherControlFlowHandlers ==
    {"VKD3DSIH_ELSE", "VKD3DSIH_CASE", "VKD3DSIH_DEFAULT", "VKD3DSIH_BREAK",
     "VKD3DSIH_BREAKP", "VKD3DSIH_CONTINUE", "VKD3DSIH_CONTINUEP", "VKD3DSIH_RET"}

\* the construct an open or close instruction belongs to
KindOf(handler_idx) ==
    CASE handler_idx \in {"VKD3DSIH_IF", "VKD3DSIH_ENDIF"} -> "if"
      [] handler_idx \in {"VKD3DSIH_LOOP", "VKD3DSIH_ENDLOOP"} -> "loop"
      [] handler_idx \in {"VKD3DSIH_SWITCH", "VKD3DSIH_ENDSWITCH"} -> "switch"
      [] OTHER -> "none"

\* The nesting of the stream itself, told from the instructions alone:
\* `balanced` as long as the stream read so far is made of opens, closes that
\* match the most recent unclosed open, and instructions outside the
\* control-flow table; `open` lists the unclosed opens.
NestingAfter(n, ins) ==
    IF ~n.balanced THEN n
    ELSE IF ins.handler_idx \in OpenHandlers
         THEN [n EXCEPT !.open = Append(@, KindOf(ins.handler_idx))]
    ELSE IF ins.handler_idx \in CloseHandlers
         THEN IF Len(n.open) > 0 /\ n.open[Len(n.open)] = KindOf(ins.handler_idx)
              THEN [n EXCEPT !.open = SubSeq(@, 1, Len(@) - 1)]
              ELSE [balanced |-> FALSE, open |-> <<>>]
    ELSE IF ins.handler_idx \in OtherControlFlowHandlers \cup {"VKD3DSIH_INVALID"}
         THEN [balanced |-> FALSE, open |-> <<>>]
    ELSE n

DeclarationHandlers ==
    {"VKD3DSIH_DCL_CONSTANT_BUFFER", "VKD3DSIH_DCL_SAMPLER", "VKD3DSIH_DCL",
     "VKD3DSIH_DCL_UAV_TYPED", "VKD3DSIH_DCL_RESOURCE_RAW", "VKD3DSIH_DCL_UAV_RAW",
     "VKD3DSIH_DCL_RESOURCE_STRUCTURED", "VKD3DSIH_DCL_UAV_STRUCTURED"}

\* the declarations of the stream, told from the instructions alone
DeclaredAfter(d, ins) ==
    IF ins.handler_idx \in DeclarationHandlers THEN Append(d, ins) ELSE d

\* what executing undefined behaviour can come to: the process dies, or the
\* faulty access is lost and the pass goes on
UbOutcomes(ub) == IF ub THEN {"crash", "continue"} ELSE {"defined"}

\* One iteration of the while loop of vkd3d_shader_scan (lines 879-897) on
\* the instruction the decoder returns.
LoopBody(ins, fails) ==
    /\ pc = "loop"
    /\ ptr < MaxInstructions
    /\ ins.handler_idx \in OpenHandlers => cf_info_count(context) < MaxDepth
    /\ ins.handler_idx \in DeclarationHandlers => Len(declared) < MaxDeclarations
    /\ ptr' = ptr + 1
    /\ instruction' = ins
    /\ nesting' = NestingAfter(nesting, ins)
    /\ declared' = DeclaredAfter(declared, ins)
    /\ reserve_failed' = fails
    /\ IF ins.handler_idx = "VKD3DSIH_INVALID"
       THEN /\ scan_descriptor_info' = vkd3d_shader_free_scan_descriptor_info(
                   context.scan_descriptor_info, scan_descriptor_info)
            /\ ret' = VKD3D_ERROR_INVALID_SHADER
            /\ pc' = "done"
            /\ UNCHANGED context
       ELSE \E r \in {vkd3d_shader_scan_instruction(
                         [context |-> context, info |-> scan_descriptor_info, ub |-> FALSE],
                         ins, fails)} :
                \E outcome \in UbOutcomes(r.st.ub) :
                    IF outcome = "crash"
                    THEN /\ pc' = "crashed"
                         /\ UNCHANGED <<context, scan_descriptor_info, ret>>
                    ELSE IF Failed(r.ret)
                    THEN /\ scan_descriptor_info' = vkd3d_shader_free_scan_descriptor_info(
                                r.st.context.scan_descriptor_info, r.st.info)
                         /\ context' = r.st.context
                         /\ ret' = r.ret
                         /\ pc' = "done"
                    ELSE /\ scan_descriptor_info' = r.st.info
                         /\ context' = [r.st.context EXCEPT !.message_context.line = @ + 1]
                         /\ ret' = r.ret
                         /\ pc' = "loop"
    /\ UNCHANGED <<messages, first_scan, compile_info, parser, released>>
    /\ UNCHANGED apart

\* the decoder returns an instruction of an open-ended stream; every
\* allocation succeeds
ScanInstruction(stream) ==
    /\ pass.streamed
    /\ \E ins \in stream : LoopBody(ins, {})
    /\ UNCHANGED <<pass, code>>

\* the arrays an instruction appends to: the vkd3d_array_reserve calls made
\* while it is scanned
ReservesOf(ins, has_info) ==
    IF ins.handler_idx \in OpenHandlers THEN {"cf_info"}
    ELSE IF ins.handler_idx \in DeclarationHandlers /\ has_info
         THEN IF ins.declaration.reg.type = VKD3DSPR_UAV
              THEN {"descriptors", "uav_ranges"}
              ELSE {"descriptors"}
    ELSE {}

\* the decoder returns an instruction of an open-ended stream; each
\* vkd3d_array_reserve made for it succeeds or fails
ScanInstructionReserving(stream) ==
    /\ pass.streamed
    /\ \E ins \in stream :
           \E fails \in SUBSET ReservesOf(ins, context.scan_descriptor_info) :
               LoopBody(ins, fails)
    /\ UNCHANGED <<pass, code>>

\* the decoder returns the next instruction of the shader fixed beforehand;
\* every allocation succeeds
ScanCodeInstruction ==
    /\ ~pass.streamed
    /\ ptr < Len(code)
    /\ LoopBody(code[ptr + 1], {})
    /\ UNCHANGED <<pass, code>>

\* The loop of vkd3d_shader_scan (lines 879-899) from instruction k of
\* `program` on, as a function: the status and the state the loop is left
\* with, every allocation succeeding.  Where the loop executes undefined
\* behaviour, st.ub is set and the loop is followed in the outcome in which
\* the pass goes on.
RECURSIVE ScanLoop(_, _, _)
ScanLoop(st, program, k) ==
    IF k > Len(program)
    THEN [ret |-> VKD3D_OK, st |-> st]
    ELSE IF program[k].handler_idx = "VKD3DSIH_INVALID"
    THEN [ret |-> VKD3D_ERROR_INVALID_SHADER,
          st |-> [st EXCEPT !.info = vkd3d_shader_free_scan_descriptor_info(
                                         st.context.scan_descriptor_info, @)]]
    ELSE LET r == vkd3d_shader_scan_instruction(st, program[k], {})
         IN  IF Failed(r.ret)
             THEN [ret |-> r.ret,
                   st |-> [r.st EXCEPT !.info = vkd3d_shader_free_scan_descriptor_info(
                                                   r.st.context.scan_descriptor_info, @)]]
             ELSE ScanLoop([r.st EXCEPT !.context.message_context.line = @ + 1],
                           program, k + 1)

\* the loop of a call on `program`, from its first instruction
ScanAlone(has_info, log_level, program) ==
    ScanLoop([context |-> ScanContextAtLoop(has_info, log_level),
              info |-> ResetDescriptorInfo([descriptors |-> <<>>, freed |-> FALSE]),
              ub |-> FALSE],
             program, 1)

\* a request with the supported tags
SupportedRequest(has_info, log_level, requested) ==
    [type |-> VKD3D_SHADER_STRUCTURE_TYPE_COMPILE_INFO,
     source_type |-> VKD3D_SHADER_SOURCE_DXBC_TPF,
     target_type |-> VKD3D_SHADER_TARGET_SPIRV_BINARY,
     has_info |-> has_info,
     log_level |-> log_level,
     messages |-> requested]

\* nothing of the call was released yet
NothingReleased ==
    [resource \in {"cf_info", "uav_ranges", "message_context", "parser"} |-> 0]

\* an end of the loop that wants every construct closed
ScanEndClosedOnly ==
    /\ pc = "loop"
    /\ ~pass.streamed => ptr = Len(code)
    /\ ret' = IF cf_info_count(context) = 0 THEN VKD3D_OK ELSE VKD3D_ERROR_INVALID_SHADER
    /\ pc' = "done"
    /\ UNCHANGED <<pass, ptr, code, instruction, context, scan_descriptor_info,
                   messages, nesting, declared, first_scan, reserve_failed,
                   compile_info, parser, released>>
    /\ UNCHANGED apart

\* shader_sm4_is_end: the loop ends and ret = VKD3D_OK (line 899)
ScanEnd ==
    /\ pc = "loop"
    /\ ~pass.streamed => ptr = Len(code)
    /\ ret' = VKD3D_OK
    /\ pc' = "done"
    /\ UNCHANGED <<pass, ptr, code, instruction, context, scan_descriptor_info,
                   messages, nesting, declared, first_scan, reserve_failed,
                   compile_info, parser, released>>
    /\ UNCHANGED apart

\* if (messages) *messages = vkd3d_shader_message_context_copy_messages(...)
\* (the copy is allocated)
CopiedMessages(requested, mc, old) ==
    IF requested
    THEN [is_null |-> FALSE, lines |-> vkd3d_shader_message_context_copy_messages(mc)]
    ELSE old

\* a cleanup that leaves the control-flow stack allocated
ContextCleanupLeaking(r) ==
    [r EXCEPT !["uav_ranges"] = @ + 1, !["message_context"] = @ + 1]

\* vkd3d_shader_scan_context_cleanup
vkd3d_shader_scan_context_cleanup(r) ==
    [r EXCEPT !["uav_ranges"] = @ + 1, !["cf_info"] = @ + 1, !["message_context"] = @ + 1]

\* vkd3d_shader_parser_destroy
vkd3d_shader_parser_destroy(r) == [r EXCEPT !["parser"] = @ + 1]

\* done: (lines 901-907)
ScanDone ==
    /\ pc = "done"
    /\ messages' = CopiedMessages(compile_info.messages, context.message_context, messages)
    /\ released' = vkd3d_shader_parser_destroy(vkd3d_shader_scan_context_cleanup(released))
    /\ parser' = "destroyed"
    /\ pc' = "returned"
    /\ UNCHANGED <<pass, ptr, code, instruction, context, scan_descriptor_info,
                   ret, nesting, declared, first_scan, reserve_failed, compile_info>>
    /\ UNCHANGED apart

\* The caller keeps what the first call handed back and calls
\* vkd3d_shader_scan again on the same compile_info, with the same
\* descriptor-info structure or with a new one (lines 839-878).
ScanAgain ==
    /\ pc = "returned"
    /\ pass.number = 1
    /\ ~pass.streamed
    /\ first_scan' = [ret |-> ret, descriptors |-> scan_descriptor_info.descriptors,
                      messages |-> messages]
    /\ messages' = NullMessages
    /\ \E reuse \in BOOLEAN :
           /\ pass' = [pass EXCEPT !.number = 2, !.same_info = reuse]
           /\ scan_descriptor_info' =
                  IF context.scan_descriptor_info
                  THEN ResetDescriptorInfo(
                           IF reuse THEN scan_descriptor_info
                           ELSE [descriptors |-> <<>>, freed |-> FALSE])
                  ELSE scan_descriptor_info
    /\ context' = ScanContextAtLoop(context.scan_descriptor_info,
                                    context.message_context.log_level)
    /\ ptr' = 0
    /\ instruction' = NoInstruction
    /\ nesting' = [balanced |-> TRUE, open |-> <<>>]
    /\ declared' = <<>>
    /\ reserve_failed' = {}
    /\ ret' = VKD3D_OK
    /\ pc' = "loop"
    /\ parser' = "initialised"
    /\ released' = NothingReleased
    /\ UNCHANGED <<code, compile_info>>
    /\ UNCHANGED apart

\* The state in which the loop of the first call starts: the request is
\* valid, the parser is initialised, the position is line 2, column 1.
\* The shader is one of `programs`, or an open-ended stream.
ScanInit(has_info, log_levels, streamed, programs) ==
    /\ pc = "loop"
    /\ pass = [number |-> 1, streamed |-> streamed, same_info |-> FALSE]
    /\ ptr = 0
    /\ code \in programs
    /\ instruction = NoInstruction
    /\ \E log_level \in log_levels :
           /\ context = ScanContextAtLoop(has_info, log_level)
           /\ compile_info = SupportedRequest(has_info, log_level, TRUE)
    /\ parser = "initialised"
    /\ released = NothingReleased
    /\ scan_descriptor_info = ResetDescriptorInfo([descriptors |-> <<>>, freed |-> FALSE])
    /\ ret = VKD3D_OK
    /\ messages = NullMessages
    /\ nesting = [balanced |-> TRUE, open |-> <<>>]
    /\ declared = <<>>
    /\ first_scan = [ret |-> VKD3D_OK, descriptors |-> <<>>, messages |-> NullMessages]
    /\ reserve_failed = {}
    /\ string_buffer = vkd3d_string_buffer_init
    /\ appended = NothingAppended
    /\ caller = "application"
    /\ message_context = NoMessageContext
    /\ spirv_compiler = NoCompiler
    /\ process = FreshProcess
    /\ vprintf = NoCall
    /\ peer = NoPeer

----------------------------------------------------------------------------
(* The entry of vkd3d_shader_scan (lines 839-878).                          *)

\* a validation that looks at the structure type only
ScanValidateTypeOnly(ci) ==
    IF ci.type # VKD3D_SHADER_STRUCTURE_TYPE_COMPILE_INFO
    THEN VKD3D_ERROR_INVALID_ARGUMENT
    ELSE VKD3D_OK

\* the checks of compile_info->type and compile_info->source_type
\* (lines 842-852)
ScanValidate(ci) ==
    IF ci.type # VKD3D_SHADER_STRUCTURE_TYPE_COMPILE_INFO
    THEN VKD3D_ERROR_INVALID_ARGUMENT
    ELSE IF ci.source_type # VKD3D_SHADER_SOURCE_DXBC_TPF
    THEN VKD3D_ERROR_INVALID_ARGUMENT
    ELSE VKD3D_OK

\* what the caller's *messages holds before the call
StaleMessages == [is_null |-> FALSE, lines |-> <<Indeterminate>>]

\* the local context before vkd3d_shader_scan_context_init
NoContext == vkd3d_shader_scan_context_init(FALSE, "LOG_NONE", SourceName)

\* lines 839-863: *messages = NULL, the tag checks, the reset of the
\* caller's descriptor info, vkd3d_shader_scan_context_init (which fails
\* when the message buffer cannot be allocated)
ScanEntry ==
    /\ pc = "entry"
    /\ messages' = IF compile_info.messages THEN NullMessages ELSE messages
    /\ IF Failed(ScanValidate(compile_info))
       THEN /\ ret' = ScanValidate(compile_info)
            /\ pc' = "returned"
            /\ UNCHANGED <<context, scan_descriptor_info>>
       ELSE /\ scan_descriptor_info' =
                   IF compile_info.has_info THEN ResetDescriptorInfo(scan_descriptor_info)
                   ELSE scan_descriptor_info
            /\ \E initialised \in BOOLEAN :
                   IF initialised
                   THEN /\ context' = vkd3d_shader_scan_context_init(
                                compile_info.has_info, compile_info.log_level, SourceName)
                        /\ pc' = "parser_init"
                        /\ UNCHANGED ret
                   ELSE /\ ret' = VKD3D_ERROR
                        /\ pc' = "returned"
                        /\ UNCHANGED context
    /\ UNCHANGED <<pass, ptr, code, instruction, nesting, declared, first_scan,
                   reserve_failed, compile_info, parser, released>>
    /\ UNCHANGED apart

\* the error shader_extract_from_dxbc reports for a malformed container
VKD3D_SHADER_ERROR_DXBC == "DXBC"
TextDxbc == <<"Invalid", "DXBC", "container.">>

\* what vkd3d_shader_parser_init comes to: VKD3D_OK, or a failure of
\* shader_extract_from_dxbc (which is given the message context and may
\* report an error, at line 0) or of shader_sm4_init
ParserInitOutcomes ==
    {[ret |-> VKD3D_OK, reported |-> FALSE]}
        \cup {[ret |-> VKD3D_ERROR_INVALID_ARGUMENT, reported |-> reported] :
                  reported \in BOOLEAN}

\* lines 865-878
ScanParserInit ==
    /\ pc = "parser_init"
    /\ \E outcome \in ParserInitOutcomes :
           IF Failed(outcome.ret)
           THEN /\ context' = IF outcome.reported
                               THEN vkd3d_shader_error(context, VKD3D_SHADER_ERROR_DXBC, TextDxbc)
                               ELSE context
                /\ messages' = CopiedMessages(compile_info.messages,
                                    context'.message_context, messages)
                /\ released' = vkd3d_shader_scan_context_cleanup(released)
                /\ ret' = outcome.ret
                /\ pc' = "returned"
                /\ UNCHANGED parser
           ELSE /\ context' = [context EXCEPT !.message_context.line = 2,
                                               !.message_context.column = 1]
                /\ parser' = "initialised"
                /\ ret' = outcome.ret
                /\ pc' = "loop"
                /\ UNCHANGED <<messages, released>>
    /\ UNCHANGED <<pass, ptr, code, instruction, scan_descriptor_info, nesting, declared,
                   first_scan, reserve_failed, compile_info>>
    /\ UNCHANGED apart

\* the requests of the model: each tag supported or not, descriptor
\* collection and messages asked for or not, a log level
Requests ==
    [type : {VKD3D_SHADER_STRUCTURE_TYPE_COMPILE_INFO,
             "VKD3D_SHADER_STRUCTURE_TYPE_SCAN_DESCRIPTOR_INFO"},
     source_type : {VKD3D_SHADER_SOURCE_DXBC_TPF, "VKD3D_SHADER_SOURCE_NONE"},
     target_type : {VKD3D_SHADER_TARGET_SPIRV_BINARY, "VKD3D_SHADER_TARGET_NONE"},
     has_info : BOOLEAN,
     log_level : LogLevels,
     messages : BOOLEAN]

\* The state in which vkd3d_shader_scan is entered with one of `requests`,
\* the shader being an open-ended stream.
ScanCallInit(requests) ==
    /\ pc = "entry"
    /\ pass = [number |-> 1, streamed |-> TRUE, same_info |-> FALSE]
    /\ ptr = 0
    /\ code = <<>>
    /\ instruction = NoInstruction
    /\ context = NoContext
    /\ compile_info \in requests
    /\ parser = "uninitialised"
    /\ released = NothingReleased
    /\ scan_descriptor_info = [descriptors |-> <<>>, freed |-> FALSE]
    /\ ret = VKD3D_OK
    /\ messages = StaleMessages
    /\ nesting = [balanced |-> TRUE, open |-> <<>>]
    /\ declared = <<>>
    /\ first_scan = [ret |-> VKD3D_OK, descriptors |-> <<>>, messages |-> NullMessages]
    /\ reserve_failed = {}
    /\ string_buffer = vkd3d_string_buffer_init
    /\ appended = NothingAppended
    /\ caller = "application"
    /\ message_context = NoMessageContext
    /\ spirv_compiler = NoCompiler
    /\ process = FreshProcess
    /\ vprintf = NoCall
    /\ peer = NoPeer

----------------------------------------------------------------------------
(* Spec: the scan pass over streams of control-flow instructions.           *)

ControlFlowStream ==
    {Ins(h) : h \in OpenHandlers \cup CloseHandlers \cup OtherControlFlowHandlers
                    \cup {"VKD3DSIH_NOP", "VKD3DSIH_INVALID"}}

Init == ScanInit(TRUE, LogLevels, TRUE, {<<>>})

ScanControlFlow == ScanInstruction(ControlFlowStream)

Next == ScanControlFlow \/ ScanEnd \/ ScanDone

Spec == Init /\ [][Next]_vars

----------------------------------------------------------------------------
(* SpecRes: the scan pass over streams of declarations and resource         *)
(* accesses, with the descriptor info requested.                            *)

UavIds == 0..MaxUavId

\* register_index values that declarations share
RegisterIndices == 0..1

\* dcl_constantbuffer cb#[..], space 0
DclCb(index) ==
    Dcl("VKD3DSIH_DCL_CONSTANT_BUFFER", {}, NoDeclaration.reg, 0, index,
        "VKD3D_SHADER_RESOURCE_NONE", "NONE")

\* dcl_uav_typed_texture2d (float,float,float,float) u<id>, space 0
DclUavTyped(id, index) ==
    Dcl("VKD3DSIH_DCL_UAV_TYPED", {}, Reg(VKD3DSPR_UAV, id), 0, index,
        "VKD3D_SHADER_RESOURCE_TEXTURE_2D", "VKD3D_DATA_FLOAT")

\* dcl_resource_texture2d (float,float,float,float) t<id>, space 0
DclSrvTyped(id, index) ==
    Dcl("VKD3DSIH_DCL", {}, Reg(VKD3DSPR_RESOURCE, id), 0, index,
        "VKD3D_SHADER_RESOURCE_TEXTURE_2D", "VKD3D_DATA_FLOAT")

\* ld_uav_typed r0, r0, u<id>
LdUavTyped(id) ==
    Op("VKD3DSIH_LD_UAV_TYPED", <<Reg(VKD3DSPR_TEMP, 0)>>,
       <<Reg(VKD3DSPR_TEMP, 0), Reg(VKD3DSPR_UAV, id)>>)

\* imm_atomic_alloc r0, u<id>
ImmAtomicAlloc(id) ==
    Op("VKD3DSIH_IMM_ATOMIC_ALLOC", <<Reg(VKD3DSPR_TEMP, 0)>>, <<Reg(VKD3DSPR_UAV, id)>>)

ResourceStream ==
    {DclCb(0), DclSrvTyped(0, 0)}
        \cup {DclUavTyped(id, index) : id \in UavIds, index \in RegisterIndices}
        \cup {LdUavTyped(id) : id \in UavIds}
        \cup {ImmAtomicAlloc(id) : id \in UavIds}

InitRes == ScanInit(TRUE, {VKD3D_SHADER_LOG_ERROR}, TRUE, {<<>>})

ScanResources == ScanInstruction(ResourceStream)

NextRes == ScanResources \/ ScanEnd \/ ScanDone

SpecRes == InitRes /\ [][NextRes]_vars

----------------------------------------------------------------------------
(* SpecDcl: the scan pass over streams of declarations of every kind and    *)
(* of UAV accesses, with the descriptor info requested.                     *)

\* dcl_sampler s0, mode_comparison, space 1
DclSampler ==
    Dcl("VKD3DSIH_DCL_SAMPLER", {VKD3DSI_SAMPLER_COMPARISON_MODE}, NoDeclaration.reg, 1, 0,
        "VKD3D_SHADER_RESOURCE_NONE", "NONE")

\* dcl_resource_raw, dcl_uav_raw, dcl_resource_structured, dcl_uav_structured
\* on register <id>, space 0, register_index 2
DclBuffer(handler_idx, file, id) ==
    Dcl(handler_idx, {}, Reg(file, id), 0, 2, "VKD3D_SHADER_RESOURCE_NONE", "NONE")

DeclarationStream ==
    {DclCb(0), DclSampler, DclSrvTyped(0, 0), DclUavTyped(0, 0),
     DclBuffer("VKD3DSIH_DCL_RESOURCE_RAW", VKD3DSPR_RESOURCE, 1),
     DclBuffer("VKD3DSIH_DCL_UAV_RAW", VKD3DSPR_UAV, 1),
     DclBuffer("VKD3DSIH_DCL_RESOURCE_STRUCTURED", VKD3DSPR_RESOURCE, 1),
     DclBuffer("VKD3DSIH_DCL_UAV_STRUCTURED", VKD3DSPR_UAV, 0),
     LdUavTyped(0), ImmAtomicAlloc(1)}

InitDcl == ScanInit(TRUE, {VKD3D_SHADER_LOG_ERROR}, TRUE, {<<>>})

ScanDeclarations == ScanInstruction(DeclarationStream)

NextDcl == ScanDeclarations \/ ScanEnd \/ ScanDone

SpecDcl == InitDcl /\ [][NextDcl]_vars

----------------------------------------------------------------------------
(* SpecTwice: vkd3d_shader_scan called twice on the same shader, one of a   *)
(* fixed set of shaders, with the descriptor info requested.                *)

\* cb, typed UAV r, typed load on r, counter allocate on r, ret
Scenario(r, index) ==
    <<DclCb(0), DclUavTyped(r, index), LdUavTyped(r), ImmAtomicAlloc(r), Ins("VKD3DSIH_RET")>>

ProgramAlphabet ==
    {DclCb(0), Ins("VKD3DSIH_RET"), Ins("VKD3DSIH_ENDIF")}
        \cup {DclUavTyped(id, 1) : id \in UavIds}
        \cup {LdUavTyped(id) : id \in UavIds}
        \cup {ImmAtomicAlloc(id) : id \in UavIds}

\* every shader of up to MaxProgramLen instructions, and the scenario and
\* its variants that access another UAV than the declared one
Programs ==
    UNION {[1..n -> ProgramAlphabet] : n \in 0..MaxProgramLen}
        \cup {Scenario(r, index) : r \in UavIds, index \in RegisterIndices}
        \cup {[Scenario(r, 1) EXCEPT ![3] = LdUavTyped(q)] : r, q \in UavIds}
        \cup {[Scenario(r, 1) EXCEPT ![4] = ImmAtomicAlloc(q)] : r, q \in UavIds}

InitTwice == ScanInit(TRUE, {VKD3D_SHADER_LOG_ERROR}, FALSE, Programs)

NextTwice == ScanCodeInstruction \/ ScanEnd \/ ScanDone \/ ScanAgain

SpecTwice == InitTwice /\ [][NextTwice]_vars

----------------------------------------------------------------------------
(* SpecBuf: vkd3d_string_buffer_vprintf called on one string buffer.        *)

TextOf(c, n) == [i \in 1..n |-> c]

\* lengths below, at and above the room of a new buffer
TextLengths ==
    {0, 1, StringBufferInitialSize - 1, StringBufferInitialSize,
     2 * StringBufferInitialSize + 6}

PrintfTexts == {TextOf(c, n) : c \in {"a", "b"}, n \in TextLengths}

\* vkd3d_string_buffer_printf(&context->messages, ...) with this text
StringBufferPrintf ==
    /\ appended.calls < MaxAppends
    /\ \E text \in PrintfTexts, fails \in BOOLEAN :
       \E r \in {vkd3d_string_buffer_vprintf(string_buffer, text, fails)} :
           /\ string_buffer' = r.buffer
           /\ appended' = [text |-> appended.text \o text,
                           calls |-> appended.calls + 1,
                           allocated |-> appended.allocated /\ ~fails,
                           ret |-> r.ret]
    /\ UNCHANGED scan_vars
    /\ UNCHANGED <<caller, message_context, spirv_compiler, peer, process, vprintf>>

InitBuf == ScanInit(TRUE, {VKD3D_SHADER_LOG_ERROR}, TRUE, {<<>>})

NextBuf == StringBufferPrintf

SpecBuf == InitBuf /\ [][NextBuf]_vars

----------------------------------------------------------------------------
(* SpecLife: the string buffer from vkd3d_string_buffer_init on, printed to *)
(* and cleared in any order.                                                *)

\* vkd3d_string_buffer_clear(&context->messages)
StringBufferClear ==
    /\ appended.calls < MaxAppends
    /\ string_buffer' = vkd3d_string_buffer_clear(string_buffer)
    /\ appended' = [appended EXCEPT !.text = <<>>, !.calls = @ + 1, !.ret = 0]
    /\ UNCHANGED scan_vars
    /\ UNCHANGED <<caller, message_context, spirv_compiler, peer, process, vprintf>>

NextLife == StringBufferPrintf \/ StringBufferClear

SpecLife == InitBuf /\ [][NextLife]_vars

----------------------------------------------------------------------------
(* SpecLoop: the loop of vkd3d_string_buffer_vprintf, one pass at a time,   *)
(* on the sizes of the buffer at the width of unsigned int.  The bytes of   *)
(* the allocation are not followed here.                                    *)

\* what a format and its arguments make of vsnprintf: the length of the
\* text, which it returns, or an error, for which it returns a negative value
VsnprintfError == [error |-> TRUE, length |-> 0]

Formats ==
    {[error |-> FALSE, length |-> n] :
        n \in {0, StringBufferInitialSize - 1, 2 * StringBufferInitialSize + 6}}
        \cup {VsnprintfError}

\* passes of the loop counted in one call; a call that makes more stays at
\* this count
MaxAttempts == 3

\* vkd3d_string_buffer_vprintf is called
VprintfCall ==
    /\ vprintf.pc \in {"idle", "returned"}
    /\ vprintf.calls < MaxAppends
    /\ \E format \in Formats :
           vprintf' = [vprintf EXCEPT !.pc = "format", !.format = format, !.rc = 0,
                                      !.attempts = 0, !.ret = 0, !.calls = @ + 1]
    /\ UNCHANGED <<scan_vars, string_buffer, appended, caller, message_context,
                   spirv_compiler, peer, process>>

\* rem = buffer_size - content_size; rc = vsnprintf(..., rem, ...); if it
\* fits, content_size += rc and return 0; else vkd3d_string_buffer_resize is
\* entered with new_buffer_size = buffer_size * 2
VprintfFormat ==
    /\ vprintf.pc = "format"
    /\ LET rem == Minus(vprintf.buffer_size, vprintf.content_size)
           rc == IF vprintf.format.error THEN -1 ELSE vprintf.format.length
           attempts == IF vprintf.attempts < MaxAttempts THEN vprintf.attempts + 1
                       ELSE vprintf.attempts
       IN  IF rc >= 0 /\ Below(Unsigned(rc), rem)
           THEN vprintf' = [vprintf EXCEPT
                                !.pc = "returned", !.rc = rc, !.attempts = attempts,
                                !.content_size = Plus(@, Unsigned(rc)), !.ret = 0]
           ELSE vprintf' = [vprintf EXCEPT
                                !.pc = "resize_while", !.rc = rc, !.attempts = attempts,
                                !.new_buffer_size = Times2(vprintf.buffer_size)]
    /\ UNCHANGED <<scan_vars, string_buffer, appended, caller, message_context,
                   spirv_compiler, peer, process>>

\* while (rc > 0 && (unsigned int)rc >= new_buffer_size - buffer->content_size)
ResizeWhile ==
    /\ vprintf.pc = "resize_while"
    /\ vprintf' = [vprintf EXCEPT !.pc =
           IF /\ vprintf.rc > 0
              /\ ~Below(Unsigned(vprintf.rc),
                        Minus(vprintf.new_buffer_size, vprintf.content_size))
           THEN "resize_double" ELSE "resize_realloc"]
    /\ UNCHANGED <<scan_vars, string_buffer, appended, caller, message_context,
                   spirv_compiler, peer, process>>

\* new_buffer_size *= 2
ResizeDouble ==
    /\ vprintf.pc = "resize_double"
    /\ vprintf' = [vprintf EXCEPT !.pc = "resize_while", !.new_buffer_size = Times2(@)]
    /\ UNCHANGED <<scan_vars, string_buffer, appended, caller, message_context,
                   spirv_compiler, peer, process>>

\* vkd3d_realloc(buffer->buffer, new_buffer_size) fails or not, also when
\* new_buffer_size is 0: the resize returns false and vprintf -1, or
\* buffer_size = new_buffer_size and the loop of vprintf goes round
ResizeRealloc ==
    /\ vprintf.pc = "resize_realloc"
    /\ \E fails \in BOOLEAN :
           vprintf' = IF fails
                      THEN [vprintf EXCEPT !.pc = "returned", !.ret = -1]
                      ELSE [vprintf EXCEPT !.pc = "format",
                                           !.buffer_size = vprintf.new_buffer_size]
    /\ UNCHANGED <<scan_vars, string_buffer, appended, caller, message_context,
                   spirv_compiler, peer, process>>

NextLoop == VprintfCall \/ VprintfFormat \/ ResizeWhile \/ ResizeDouble \/ ResizeRealloc

\* a thread in the loop goes on to its next statement
SpecLoop ==
    /\ InitBuf
    /\ [][NextLoop]_vars
    /\ WF_vars(VprintfFormat)
    /\ WF_vars(ResizeWhile)
    /\ WF_vars(ResizeDouble)
    /\ WF_vars(ResizeRealloc)

----------------------------------------------------------------------------
(* SpecAlloc: the scan pass over streams that grow the control-flow stack,  *)
(* the descriptor table and the UAV range map, where growing may fail.      *)

AllocStream ==
    {Ins("VKD3DSIH_IF"), Ins("VKD3DSIH_ENDIF"), DclCb(0)}
        \cup {DclUavTyped(id, 0) : id \in UavIds}
        \cup {LdUavTyped(id) : id \in UavIds}

InitAlloc == ScanInit(TRUE, {VKD3D_SHADER_LOG_ERROR}, TRUE, {<<>>})

ScanReserving == ScanInstructionReserving(AllocStream)

NextAlloc == ScanReserving \/ ScanEnd \/ ScanDone

SpecAlloc == InitAlloc /\ [][NextAlloc]_vars

----------------------------------------------------------------------------
(* SpecPlain: the scan pass of a caller that passes no                      *)
(* vkd3d_shader_scan_descriptor_info, on shaders of up to MaxProgramLen     *)
(* control-flow instructions, declarations and UAV accesses.                *)

PlainAlphabet ==
    {Ins("VKD3DSIH_IF"), Ins("VKD3DSIH_ENDIF"), DclCb(0), DclUavTyped(0, 0),
     LdUavTyped(0), ImmAtomicAlloc(0)}

DeclarationsOf(program) ==
    {k \in DOMAIN program : program[k].handler_idx \in DeclarationHandlers}

PlainPrograms ==
    {program \in UNION {[1..n -> PlainAlphabet] : n \in 0..MaxProgramLen} :
        Cardinality(DeclarationsOf(program)) <= MaxDeclarations}

InitPlain == ScanInit(FALSE, LogLevels, FALSE, PlainPrograms)

NextPlain == ScanCodeInstruction \/ ScanEnd \/ ScanDone

SpecPlain == InitPlain /\ [][NextPlain]_vars

----------------------------------------------------------------------------
(* SpecPair: two calls of vkd3d_shader_scan on two threads, each with its   *)
(* own request, descriptor info and messages.  One thread runs at a time;   *)
(* the other call is kept in `peer`, and Yield switches between them        *)
(* anywhere between two turns of the loop.                                  *)

\* a call at the start of its loop (the request is valid, the parser is
\* initialised, the position is line 2, column 1)
LoopStart(has_info, log_level, program) ==
    [pc |-> "loop",
     ptr |-> 0,
     code |-> program,
     instruction |-> NoInstruction,
     context |-> ScanContextAtLoop(has_info, log_level),
     scan_descriptor_info |-> ResetDescriptorInfo([descriptors |-> <<>>, freed |-> FALSE]),
     ret |-> VKD3D_OK,
     messages |-> NullMessages,
     compile_info |-> SupportedRequest(has_info, log_level, TRUE),
     parser |-> "initialised",
     released |-> NothingReleased,
     nesting |-> [balanced |-> TRUE, open |-> <<>>],
     declared |-> <<>>,
     reserve_failed |-> {}]

\* the call of the running thread
Running ==
    [pc |-> pc,
     ptr |-> ptr,
     code |-> code,
     instruction |-> instruction,
     context |-> context,
     scan_descriptor_info |-> scan_descriptor_info,
     ret |-> ret,
     messages |-> messages,
     compile_info |-> compile_info,
     parser |-> parser,
     released |-> released,
     nesting |-> nesting,
     declared |-> declared,
     reserve_failed |-> reserve_failed]

\* a switch after which both threads work on one context, as they would if
\* `context` were not a local of the call
YieldSharedContext ==
    /\ peer.pc \notin {"returned", "crashed"}
    /\ pc' = peer.pc
    /\ ptr' = peer.ptr
    /\ code' = peer.code
    /\ instruction' = peer.instruction
    /\ context' = context
    /\ scan_descriptor_info' = peer.scan_descriptor_info
    /\ ret' = peer.ret
    /\ messages' = peer.messages
    /\ compile_info' = peer.compile_info
    /\ parser' = peer.parser
    /\ released' = peer.released
    /\ nesting' = peer.nesting
    /\ declared' = peer.declared
    /\ reserve_failed' = peer.reserve_failed
    /\ peer' = Running
    /\ UNCHANGED <<pass, first_scan, buffer_vars, caller, message_context, spirv_compiler,
                   process>>

\* The other thread is scheduled: its call goes on with its own locals
\* (context, parser, instruction, ret: lines 831-836) and its own request,
\* and the call that ran is kept as it is.
Yield ==
    /\ peer.pc \notin {"returned", "crashed"}
    /\ pc' = peer.pc
    /\ ptr' = peer.ptr
    /\ code' = peer.code
    /\ instruction' = peer.instruction
    /\ context' = peer.context
    /\ scan_descriptor_info' = peer.scan_descriptor_info
    /\ ret' = peer.ret
    /\ messages' = peer.messages
    /\ compile_info' = peer.compile_info
    /\ parser' = peer.parser
    /\ released' = peer.released
    /\ nesting' = peer.nesting
    /\ declared' = peer.declared
    /\ reserve_failed' = peer.reserve_failed
    /\ peer' = Running
    /\ UNCHANGED <<pass, first_scan, buffer_vars, caller, message_context, spirv_compiler,
                   process>>

\* the shaders of the two calls
PairPrograms ==
    {<<DclCb(0), Ins("VKD3DSIH_IF"), Ins("VKD3DSIH_ENDIF")>>,
     <<DclUavTyped(0, 0), LdUavTyped(0), ImmAtomicAlloc(0)>>,
     <<Ins("VKD3DSIH_IF"), Ins("VKD3DSIH_ENDLOOP")>>,
     <<DclCb(1), Ins("VKD3DSIH_INVALID")>>,
     <<Ins("VKD3DSIH_LOOP"), DclUavTyped(1, 1)>>}

PairCalls ==
    {LoopStart(has_info, log_level, program) :
        has_info \in BOOLEAN, log_level \in LogLevels, program \in PairPrograms}

InitPair ==
    /\ \E call \in PairCalls :
           /\ pc = call.pc
           /\ ptr = call.ptr
           /\ code = call.code
           /\ instruction = call.instruction
           /\ context = call.context
           /\ scan_descriptor_info = call.scan_descriptor_info
           /\ ret = call.ret
           /\ messages = call.messages
           /\ compile_info = call.compile_info
           /\ parser = call.parser
           /\ released = call.released
           /\ nesting = call.nesting
           /\ declared = call.declared
           /\ reserve_failed = call.reserve_failed
    /\ peer \in PairCalls
    /\ pass = [number |-> 1, streamed |-> FALSE, same_info |-> FALSE]
    /\ first_scan = [ret |-> VKD3D_OK, descriptors |-> <<>>, messages |-> NullMessages]
    /\ string_buffer = vkd3d_string_buffer_init
    /\ appended = NothingAppended
    /\ caller = "application"
    /\ message_context = NoMessageContext
    /\ spirv_compiler = NoCompiler
    /\ process = FreshProcess
    /\ vprintf = NoCall

NextPair == ScanCodeInstruction \/ ScanEnd \/ ScanDone \/ Yield

SpecPair == InitPair /\ [][NextPair]_vars

----------------------------------------------------------------------------
(* vkd3d_shader_compile.  The backend (vkd3d_dxbc_compiler) is kept as      *)
(* the calls made on it: the instructions handed over, with the position    *)
(* of the message context at the call and the result, and the number of     *)
(* vkd3d_dxbc_compiler_generate_spirv calls.                                *)

\* vkd3d_shader_validate_compile_info
vkd3d_shader_validate_compile_info(ci) ==
    IF ci.type # VKD3D_SHADER_STRUCTURE_TYPE_COMPILE_INFO
    THEN VKD3D_ERROR_INVALID_ARGUMENT
    ELSE IF ci.source_type # VKD3D_SHADER_SOURCE_DXBC_TPF
    THEN VKD3D_ERROR_INVALID_ARGUMENT
    ELSE IF ci.target_type # VKD3D_SHADER_TARGET_SPIRV_BINARY
    THEN VKD3D_ERROR_INVALID_ARGUMENT
    ELSE VKD3D_OK

\* lines 303-315: *messages = NULL, the tag checks, scan_info (a copy of
\* compile_info with the local scan_descriptor_info chained in), the call of
\* vkd3d_shader_scan
CompileEntry ==
    /\ pc = "compile_entry"
    /\ messages' = IF compile_info.messages THEN NullMessages ELSE messages
    /\ IF Failed(vkd3d_shader_validate_compile_info(compile_info))
       THEN /\ ret' = vkd3d_shader_validate_compile_info(compile_info)
            /\ pc' = "compile_returned"
            /\ UNCHANGED compile_info
       ELSE /\ compile_info' = [compile_info EXCEPT !.has_info = TRUE]
            /\ pc' = "entry"
            /\ UNCHANGED ret
    /\ UNCHANGED <<pass, ptr, code, instruction, context, scan_descriptor_info, nesting,
                   declared, first_scan, reserve_failed, parser, released>>
    /\ UNCHANGED <<buffer_vars, peer, caller, message_context, spirv_compiler, process>>

\* vkd3d_dxbc_compiler_create, when it succeeds
vkd3d_dxbc_compiler_create == [state |-> "created", handled |-> <<>>, generated |-> 0]

\* lines 315-339: the result of vkd3d_shader_scan; the scan's messages are
\* freed; vkd3d_shader_message_context_init, vkd3d_shader_parser_init and
\* vkd3d_dxbc_compiler_create, each of which may fail, with
\* vkd3d_shader_dump_shader once the decoder is initialised; line 2, column 1
CompileAfterScan ==
    /\ pc = "returned"
    /\ caller = "vkd3d_shader_compile"
    /\ IF Failed(ret)
       THEN /\ pc' = "compile_returned"
            /\ UNCHANGED <<ret, messages, ptr, parser, message_context, spirv_compiler,
                           process>>
       ELSE /\ messages' = IF compile_info.messages THEN NullMessages ELSE messages
            /\ ptr' = 0
            /\ \E initialised \in BOOLEAN, parsed \in ParserInitOutcomes, created \in BOOLEAN :
                   \E mc \in {vkd3d_shader_message_context_init(
                                   compile_info.log_level, SourceName)} :
                       IF ~initialised
                       THEN /\ ret' = VKD3D_ERROR
                            /\ pc' = "compile_returned"
                            /\ parser' = "uninitialised"
                            /\ UNCHANGED <<message_context, spirv_compiler, process>>
                       ELSE IF Failed(parsed.ret)
                       THEN /\ message_context' =
                                   IF parsed.reported
                                   THEN vkd3d_shader_verror(mc, VKD3D_SHADER_ERROR_DXBC, TextDxbc)
                                   ELSE mc
                            /\ ret' = parsed.ret
                            /\ pc' = "compile_done"
                            /\ parser' = "uninitialised"
                            /\ UNCHANGED <<spirv_compiler, process>>
                       ELSE IF ~created
                       THEN /\ message_context' = mc
                            /\ ret' = VKD3D_ERROR
                            /\ pc' = "compile_done"
                            /\ parser' = "destroyed"
                            /\ process' = vkd3d_shader_dump_shader(process)
                            /\ UNCHANGED spirv_compiler
                       ELSE /\ message_context' = [mc EXCEPT !.line = 2, !.column = 1]
                            /\ ret' = parsed.ret
                            /\ pc' = "compile_loop"
                            /\ parser' = "initialised"
                            /\ process' = vkd3d_shader_dump_shader(process)
                            /\ spirv_compiler' = vkd3d_dxbc_compiler_create
    /\ UNCHANGED <<pass, code, instruction, context, scan_descriptor_info, nesting,
                   declared, first_scan, reserve_failed, compile_info, released>>
    /\ UNCHANGED <<buffer_vars, peer, caller>>

\* the error the backend reports for an instruction it cannot translate
VKD3D_SHADER_ERROR_SPV == "SPV"
TextSpv == <<"Unhandled", "instruction.">>

\* what vkd3d_dxbc_compiler_handle_instruction comes to: VKD3D_OK, or a
\* failure, which the backend may report to the message context it was
\* created with
HandleOutcomes ==
    {[ret |-> VKD3D_OK, reported |-> FALSE]}
        \cup {[ret |-> VKD3D_ERROR_INVALID_SHADER, reported |-> reported] :
                  reported \in BOOLEAN}

\* the call vkd3d_dxbc_compiler_handle_instruction(spirv_compiler, &instruction)
vkd3d_dxbc_compiler_handle_instruction(compiler, ins, mc, result) ==
    [compiler EXCEPT !.handled = Append(@, [instruction |-> ins, line |-> mc.line,
                                            column |-> mc.column, ret |-> result])]

\* a loop that does not count the lines
SameLine(mc) == mc

\* ++message_context.line
NextLine(mc) == [mc EXCEPT !.line = @ + 1]

\* lines 340-355: one turn of the loop
CompileInstruction ==
    /\ pc = "compile_loop"
    /\ ptr < Len(code)
    /\ ptr' = ptr + 1
    /\ instruction' = code[ptr + 1]
    /\ IF code[ptr + 1].handler_idx = "VKD3DSIH_INVALID"
       THEN /\ ret' = VKD3D_ERROR_INVALID_SHADER
            /\ pc' = "compile_end"
            /\ UNCHANGED <<message_context, spirv_compiler>>
       ELSE \E outcome \in HandleOutcomes :
                /\ spirv_compiler' = vkd3d_dxbc_compiler_handle_instruction(
                       spirv_compiler, code[ptr + 1], message_context, outcome.ret)
                /\ ret' = outcome.ret
                /\ IF Failed(outcome.ret)
                   THEN /\ message_context' =
                               IF outcome.reported
                               THEN vkd3d_shader_verror(message_context,
                                        VKD3D_SHADER_ERROR_SPV, TextSpv)
                               ELSE message_context
                        /\ pc' = "compile_end"
                   ELSE /\ message_context' = NextLine(message_context)
                        /\ pc' = "compile_loop"
    /\ UNCHANGED <<pass, code, context, scan_descriptor_info, messages, nesting, declared,
                   first_scan, reserve_failed, compile_info, parser, released>>
    /\ UNCHANGED <<buffer_vars, peer, caller, process>>

\* what vkd3d_dxbc_compiler_generate_spirv returns
GenerateResults == {VKD3D_OK, VKD3D_ERROR}

\* a pass that emits whatever the loop came to
GenerateAlways(status, compiler, result) ==
    [ret |-> result, compiler |-> [compiler EXCEPT !.generated = @ + 1]]

\* if (ret >= 0) ret = vkd3d_dxbc_compiler_generate_spirv(spirv_compiler, out);
GenerateAfterLoop(status, compiler, result) ==
    IF ~Failed(status)
    THEN [ret |-> result, compiler |-> [compiler EXCEPT !.generated = @ + 1]]
    ELSE [ret |-> status, compiler |-> compiler]

\* lines 340 and 356-360: the loop is left, at the end of the stream or by a
\* break; generate, vkd3d_dxbc_compiler_destroy, vkd3d_shader_parser_destroy
CompileEnd ==
    /\ \/ pc = "compile_end"
       \/ pc = "compile_loop" /\ ptr = Len(code)
    /\ \E result \in GenerateResults :
           \E r \in {GenerateAfterLoop(ret, spirv_compiler, result)} :
               /\ ret' = r.ret
               /\ spirv_compiler' = [r.compiler EXCEPT !.state = "destroyed"]
    /\ parser' = "destroyed"
    /\ pc' = "compile_done"
    /\ UNCHANGED <<pass, ptr, code, instruction, context, scan_descriptor_info, messages,
                   nesting, declared, first_scan, reserve_failed, compile_info, released>>
    /\ UNCHANGED <<buffer_vars, peer, caller, message_context, process>>

\* done: (lines 361-367); the copy of the messages is allocated
CompileDone ==
    /\ pc = "compile_done"
    /\ messages' = CopiedMessages(compile_info.messages, message_context, messages)
    /\ scan_descriptor_info' =
           vkd3d_shader_free_scan_descriptor_info(TRUE, scan_descriptor_info)
    /\ pc' = "compile_returned"
    /\ UNCHANGED <<pass, ptr, code, instruction, context, ret, nesting, declared,
                   first_scan, reserve_failed, compile_info, parser, released>>
    /\ UNCHANGED <<buffer_vars, peer, caller, message_context, spirv_compiler, process>>

\* The state in which vkd3d_shader_compile is entered with one of
\* `requests` on one of the shaders `programs`.
CompileInit(requests, programs) ==
    /\ pc = "compile_entry"
    /\ pass = [number |-> 1, streamed |-> FALSE, same_info |-> FALSE]
    /\ ptr = 0
    /\ code \in programs
    /\ instruction = NoInstruction
    /\ context = NoContext
    /\ compile_info \in requests
    /\ parser = "uninitialised"
    /\ released = NothingReleased
    /\ scan_descriptor_info = [descriptors |-> <<>>, freed |-> FALSE]
    /\ ret = VKD3D_OK
    /\ messages = StaleMessages
    /\ nesting = [balanced |-> TRUE, open |-> <<>>]
    /\ declared = <<>>
    /\ first_scan = [ret |-> VKD3D_OK, descriptors |-> <<>>, messages |-> NullMessages]
    /\ reserve_failed = {}
    /\ string_buffer = vkd3d_string_buffer_init
    /\ appended = NothingAppended
    /\ caller = "vkd3d_shader_compile"
    /\ message_context = NoMessageContext
    /\ spirv_compiler = NoCompiler
    /\ process = FreshProcess
    /\ vprintf = NoCall
    /\ peer = NoPeer

----------------------------------------------------------------------------
(* SpecCompile: a whole call of vkd3d_shader_compile, the call of           *)
(* vkd3d_shader_scan it makes included, on shaders of up to MaxProgramLen   *)
(* instructions.                                                            *)

CompileRequests == {request \in Requests : ~request.has_info}

CompileAlphabet ==
    {Ins("VKD3DSIH_IF"), Ins("VKD3DSIH_ENDIF"), Ins("VKD3DSIH_NOP"), Ins("VKD3DSIH_INVALID")}

CompilePrograms == UNION {[1..n -> CompileAlphabet] : n \in 0..MaxProgramLen}

InitCompile == CompileInit(CompileRequests, CompilePrograms)

NextCompile ==
    \/ CompileEntry
    \/ ScanEntry
    \/ ScanParserInit
    \/ ScanCodeInstruction
    \/ ScanEnd
    \/ ScanDone
    \/ CompileAfterScan
    \/ CompileInstruction
    \/ CompileEnd
    \/ CompileDone

SpecCompile == InitCompile /\ [][NextCompile]_vars

----------------------------------------------------------------------------
(* SpecRelease: a whole call of vkd3d_shader_compile on shaders that        *)
(* declare resources, so that the scan it makes fills the descriptor table. *)

ReleaseAlphabet ==
    {DclCb(0), Ins("VKD3DSIH_NOP"), Ins("VKD3DSIH_ENDIF"), Ins("VKD3DSIH_INVALID")}

ReleasePrograms == UNION {[1..n -> ReleaseAlphabet] : n \in 0..MaxProgramLen}

InitRelease == CompileInit(CompileRequests, ReleasePrograms)

SpecRelease == InitRelease /\ [][NextCompile]_vars

----------------------------------------------------------------------------
(* SpecDump: a process that calls vkd3d_shader_compile up to MaxCompiles    *)
(* times, one call after the other, and may set or unset                    *)
(* VKD3D_SHADER_DUMP_PATH between two calls.                                *)

\* a request that is compiled and one that fails validation
DumpRequests ==
    {SupportedRequest(FALSE, VKD3D_SHADER_LOG_ERROR, TRUE),
     [SupportedRequest(FALSE, VKD3D_SHADER_LOG_ERROR, TRUE)
         EXCEPT !.target_type = "VKD3D_SHADER_TARGET_NONE"]}

\* a shader that reaches the backend and one the scan rejects
DumpPrograms == {<<Ins("VKD3DSIH_NOP")>>, <<Ins("VKD3DSIH_INVALID")>>}

InitDump == CompileInit(DumpRequests, DumpPrograms)

\* the application calls vkd3d_shader_compile again: the locals of the call
\* are new, the static variables and the environment are what they were
CompileAgain ==
    /\ pc = "compile_returned"
    /\ process.calls < MaxCompiles
    /\ process' = [process EXCEPT !.calls = @ + 1]
    /\ pc' = "compile_entry"
    /\ pass' = [number |-> 1, streamed |-> FALSE, same_info |-> FALSE]
    /\ ptr' = 0
    /\ code' \in DumpPrograms
    /\ instruction' = NoInstruction
    /\ context' = NoContext
    /\ compile_info' \in DumpRequests
    /\ parser' = "uninitialised"
    /\ released' = NothingReleased
    /\ scan_descriptor_info' = [descriptors |-> <<>>, freed |-> FALSE]
    /\ ret' = VKD3D_OK
    /\ messages' = StaleMessages
    /\ nesting' = [balanced |-> TRUE, open |-> <<>>]
    /\ declared' = <<>>
    /\ reserve_failed' = {}
    /\ message_context' = NoMessageContext
    /\ spirv_compiler' = NoCompiler
    /\ UNCHANGED <<first_scan, buffer_vars, caller, peer>>

\* between two calls the application sets or unsets VKD3D_SHADER_DUMP_PATH
Setenv ==
    /\ pc = "compile_entry"
    /\ process' = [process EXCEPT !.path = ~@]
    /\ UNCHANGED <<scan_vars, buffer_vars, caller, message_context, spirv_compiler, peer>>

NextDump == NextCompile \/ CompileAgain \/ Setenv

SpecDump == InitDump /\ [][NextDump]_vars

----------------------------------------------------------------------------
(* SpecCall: a whole call of vkd3d_shader_scan, from its entry, on any      *)
(* request.                                                                 *)

CallStream ==
    {Ins("VKD3DSIH_IF"), Ins("VKD3DSIH_ENDIF"), Ins("VKD3DSIH_INVALID"), DclCb(0)}

InitCall == ScanCallInit(Requests)

ScanCallInstruction == ScanInstruction(CallStream)

NextCall == ScanEntry \/ ScanParserInit \/ ScanCallInstruction \/ ScanEnd \/ ScanDone

SpecCall == InitCall /\ [][NextCall]_vars

----------------------------------------------------------------------------
(* SpecNest: the scan pass, collecting descriptors, on shaders of up to     *)
(* MaxProgramLen instructions fixed beforehand: opens, closes, the other    *)
(* control-flow instructions, a declaration and a UAV access.               *)

NestAlphabet ==
    {Ins(h) : h \in OpenHandlers \cup CloseHandlers}
        \cup {Ins("VKD3DSIH_ELSE"), Ins("VKD3DSIH_CASE"), Ins("VKD3DSIH_BREAK"),
              Ins("VKD3DSIH_RET"), DclUavTyped(0, 0), LdUavTyped(0)}

NestPrograms == UNION {[1..n -> NestAlphabet] : n \in 0..MaxProgramLen}

InitNest == ScanInit(TRUE, {VKD3D_SHADER_LOG_ERROR}, FALSE, NestPrograms)

NextNest == ScanCodeInstruction \/ ScanEnd \/ ScanDone

SpecNest == InitNest /\ [][NextNest]_vars

----------------------------------------------------------------------------
(* SpecTyped: the scan pass, collecting descriptors, over streams of typed, *)
(* raw and structured resource declarations of every element type.          *)

\* the cases of the switch of vkd3d_shader_scan_typed_resource_declaration
ListedDataTypes ==
    {"VKD3D_DATA_UNORM", "VKD3D_DATA_SNORM", "VKD3D_DATA_INT", "VKD3D_DATA_UINT",
     "VKD3D_DATA_FLOAT"}

\* two values of semantic->resource_data_type that the switch has no case for
UnlistedDataTypes == {"VKD3D_DATA_OPAQUE", "0x7f"}

\* dcl_resource_texture2d / dcl_uav_typed_texture2d (<data_type>, ...) on
\* register 0 of the file, space 0
DclTyped(handler_idx, file, data_type) ==
    Dcl(handler_idx, {}, Reg(file, 0), 0, 0, "VKD3D_SHADER_RESOURCE_TEXTURE_2D", data_type)

TypedStream ==
    {DclTyped("VKD3DSIH_DCL", VKD3DSPR_RESOURCE, t) : t \in ListedDataTypes \cup UnlistedDataTypes}
        \cup {DclTyped("VKD3DSIH_DCL_UAV_TYPED", VKD3DSPR_UAV, t) :
                  t \in ListedDataTypes \cup UnlistedDataTypes}
        \cup {DclTyped("VKD3DSIH_DCL", VKD3DSPR_UAV, "VKD3D_DATA_INT"),
              DclTyped("VKD3DSIH_DCL_UAV_TYPED", VKD3DSPR_RESOURCE, "VKD3D_DATA_INT"),
              DclBuffer("VKD3DSIH_DCL_RESOURCE_RAW", VKD3DSPR_RESOURCE, 1),
              DclBuffer("VKD3DSIH_DCL_UAV_RAW", VKD3DSPR_UAV, 1),
              DclBuffer("VKD3DSIH_DCL_RESOURCE_STRUCTURED", VKD3DSPR_RESOURCE, 1),
              DclBuffer("VKD3DSIH_DCL_UAV_STRUCTURED", VKD3DSPR_UAV, 1)}

ScanTyped == ScanInstruction(TypedStream)

NextTyped == ScanTyped \/ ScanEnd \/ ScanDone

SpecTyped == InitDcl /\ [][NextTyped]_vars

----------------------------------------------------------------------------
(* Vocabulary of the properties.                                            *)

\* this step is a loop iteration on an instruction with this handler
Scanned(handler_idx) ==
    /\ pc = "loop"
    /\ ptr' = ptr + 1
    /\ instruction'.handler_idx = handler_idx

\* the instruction was accepted and the loop goes on
Accepted == pc' = "loop" /\ ret' = VKD3D_OK

\* the pass stops at the instruction with VKD3D_ERROR_INVALID_SHADER
RejectedInvalidShader == pc' = "done" /\ ret' = VKD3D_ERROR_INVALID_SHADER

Stack == context.cf_info
Top == context.cf_info[Len(context.cf_info)]
Diagnostics == context.message_context.messages
ErrorsLogged ==
    LogRank(context.message_context.log_level) >= LogRank(VKD3D_SHADER_LOG_ERROR)

SameStack == context'.cf_info = context.cf_info
Popped == context'.cf_info = SubSeq(context.cf_info, 1, Len(context.cf_info) - 1)
SameDiagnostics == context'.message_context.messages = Diagnostics
NothingReported ==
    /\ SameDiagnostics
    /\ context'.message_context.errors = context.message_context.errors

\* the step adds exactly one diagnostic, of this error, at the position of
\* the instruction
OneNewDiagnostic(error) ==
    /\ Len(context'.message_context.messages) = Len(Diagnostics) + 1
    /\ SubSeq(context'.message_context.messages, 1, Len(Diagnostics)) = Diagnostics
    /\ context'.message_context.messages[Len(Diagnostics) + 1].error = error
    /\ context'.message_context.messages[Len(Diagnostics) + 1].prefix =
           <<SourceName, context.message_context.line, 1>>

\* the instruction is rejected and this one error is reported to the
\* message context
RejectedWith(error) ==
    /\ RejectedInvalidShader
    /\ context'.message_context.errors = Append(context.message_context.errors, error)

\* the frame is an unclosed construct of this kind
BlockOf(kind) ==
    CASE kind = "if" -> VKD3D_SHADER_BLOCK_IF
      [] kind = "loop" -> VKD3D_SHADER_BLOCK_LOOP
      [] kind = "switch" -> VKD3D_SHADER_BLOCK_SWITCH

Words(text) == {text[i] : i \in 1..Len(text)}

----------------------------------------------------------------------------
(* Control-flow verifier.                                                   *)

\* C1: while the stream read so far is balanced (opens, closes matching the
\* most recent unclosed open, and instructions outside the control-flow
\* table), no instruction is rejected and the stack holds exactly the
\* unclosed opens; so at end-of-stream of a balanced stream cf_info_count = 0.
C1_BalancedStreamAccepted ==
    nesting.balanced =>
        /\ pc # "crashed"
        /\ ret = VKD3D_OK
        /\ Len(Stack) = Len(nesting.open)
        /\ \A i \in 1..Len(Stack) : Stack[i].type = BlockOf(nesting.open[i])
        /\ (pc \in {"done", "returned"} /\ nesting.open = <<>>) => Len(Stack) = 0

\* a balanced stream of at least four instructions ending in ENDSWITCH was
\* accepted to its end with an empty stack
C1_Witness ==
    /\ pc = "returned"
    /\ nesting.balanced /\ nesting.open = <<>>
    /\ ptr >= 4
    /\ instruction.handler_idx = "VKD3DSIH_ENDSWITCH"
    /\ ret = VKD3D_OK
    /\ Len(Stack) = 0

\* C2 as stated: ENDIF pops when the top frame is an If, whatever its
\* inside_block; otherwise it is rejected with INVALID_SHADER, one
\* MISMATCHED_CF diagnostic and the stack unchanged.
C2_EndifAsStated ==
    [][Scanned("VKD3DSIH_ENDIF") =>
          IF Len(Stack) > 0 /\ Top.type = VKD3D_SHADER_BLOCK_IF
          THEN Accepted /\ Popped /\ SameDiagnostics
          ELSE /\ RejectedInvalidShader
               /\ SameStack
               /\ OneNewDiagnostic(VKD3D_SHADER_ERROR_TPF_MISMATCHED_CF)]_vars

\* C2 amended: the same, the diagnostic being recorded when the log level
\* is ERROR or higher and not recorded below it.
C2_Endif ==
    [][Scanned("VKD3DSIH_ENDIF") =>
          IF Len(Stack) > 0 /\ Top.type = VKD3D_SHADER_BLOCK_IF
          THEN Accepted /\ Popped /\ SameDiagnostics
          ELSE /\ RejectedInvalidShader
               /\ SameStack
               /\ IF ErrorsLogged
                  THEN OneNewDiagnostic(VKD3D_SHADER_ERROR_TPF_MISMATCHED_CF)
                  ELSE SameDiagnostics]_vars

\* an ENDIF met a Loop frame and was rejected with one diagnostic
C2_Witness ==
    /\ pc = "done"
    /\ instruction.handler_idx = "VKD3DSIH_ENDIF"
    /\ ret = VKD3D_ERROR_INVALID_SHADER
    /\ Len(Stack) > 0 /\ Top.type = VKD3D_SHADER_BLOCK_LOOP
    /\ Len(Diagnostics) = 1
    /\ Diagnostics[1].text = TextEndif

\* C3: ENDSWITCH on a Switch frame is rejected with MISMATCHED_CF when the
\* frame's inside_block is set, and pops the frame when it is clear.
C3_Endswitch ==
    [][(Scanned("VKD3DSIH_ENDSWITCH") /\ Len(Stack) > 0
            /\ Top.type = VKD3D_SHADER_BLOCK_SWITCH) =>
          IF Top.inside_block
          THEN RejectedWith(VKD3D_SHADER_ERROR_TPF_MISMATCHED_CF) /\ SameStack
          ELSE Accepted /\ Popped /\ NothingReported]_vars

\* an ENDSWITCH was rejected on a Switch frame whose case is still open
C3_Witness ==
    /\ pc = "done"
    /\ instruction.handler_idx = "VKD3DSIH_ENDSWITCH"
    /\ ret = VKD3D_ERROR_INVALID_SHADER
    /\ Len(Stack) > 0
    /\ Top.type = VKD3D_SHADER_BLOCK_SWITCH /\ Top.inside_block
    /\ Len(Diagnostics) = 1

\* C4: a pushed Switch frame has no default; a frame's has_default changes
\* only when a DEFAULT is accepted on it as the top frame; DEFAULT on a
\* Switch top is accepted when the frame has no default yet (whatever the
\* frames below hold) and rejected with MISMATCHED_CF when it has one.
C4_Default ==
    [][/\ (Scanned("VKD3DSIH_SWITCH") /\ Accepted) =>
              /\ Len(context'.cf_info) = Len(Stack) + 1
              /\ ~context'.cf_info[Len(Stack) + 1].has_default
       /\ \A i \in 1..Len(Stack) :
              (i <= Len(context'.cf_info)
                  /\ context'.cf_info[i].has_default # Stack[i].has_default) =>
                  /\ Scanned("VKD3DSIH_DEFAULT") /\ Accepted
                  /\ i = Len(Stack)
       /\ (Scanned("VKD3DSIH_DEFAULT") /\ Len(Stack) > 0
               /\ Top.type = VKD3D_SHADER_BLOCK_SWITCH) =>
              IF Top.has_default
              THEN RejectedWith(VKD3D_SHADER_ERROR_TPF_MISMATCHED_CF) /\ SameStack
              ELSE /\ Accepted /\ NothingReported
                   /\ context'.cf_info =
                          [Stack EXCEPT ![Len(Stack)].has_default = TRUE,
                                        ![Len(Stack)].inside_block = TRUE]]_vars

\* a DEFAULT was accepted in a switch nested in a switch that has its own
\* default
C4_Witness ==
    /\ pc = "loop"
    /\ instruction.handler_idx = "VKD3DSIH_DEFAULT"
    /\ ret = VKD3D_OK
    /\ Len(Stack) = 2
    /\ \A i \in 1..2 : Stack[i].type = VKD3D_SHADER_BLOCK_SWITCH /\ Stack[i].has_default

\* C5: BREAK is rejected with MISMATCHED_CF when no frame is a Loop or a
\* Switch; otherwise it is accepted and clears inside_block of the
\* innermost Loop or Switch frame and changes nothing else of the stack.
C5_Break ==
    [][Scanned("VKD3DSIH_BREAK") =>
          LET breakable == {i \in 1..Len(Stack) :
                               Stack[i].type \in {VKD3D_SHADER_BLOCK_LOOP,
                                                  VKD3D_SHADER_BLOCK_SWITCH}}
          IN  IF breakable = {}
              THEN RejectedWith(VKD3D_SHADER_ERROR_TPF_MISMATCHED_CF) /\ SameStack
              ELSE /\ Accepted /\ NothingReported
                   /\ \E k \in breakable :
                          /\ \A j \in breakable : j <= k
                          /\ context'.cf_info = [Stack EXCEPT ![k].inside_block = FALSE]]_vars

\* a BREAK inside an If inside a switch case closed the case and left the
\* If frame open
C5_Witness ==
    /\ pc = "loop"
    /\ instruction.handler_idx = "VKD3DSIH_BREAK"
    /\ ret = VKD3D_OK
    /\ Len(Stack) = 2
    /\ Stack[1].type = VKD3D_SHADER_BLOCK_SWITCH /\ ~Stack[1].inside_block
    /\ Stack[2].type = VKD3D_SHADER_BLOCK_IF /\ Stack[2].inside_block

\* a diagnostic of a mismatched ENDLOOP: the error code and a text that
\* names endloop
EndloopLine(l) ==
    /\ l.error = VKD3D_SHADER_ERROR_TPF_MISMATCHED_CF
    /\ "endloop" \in Words(l.text)

\* the pass returns after rejecting an ENDLOOP
ReturnsAfterEndloop ==
    /\ pc = "done" /\ pc' = "returned"
    /\ instruction.handler_idx = "VKD3DSIH_ENDLOOP"
    /\ ret = VKD3D_ERROR_INVALID_SHADER

\* C9 as stated: an ENDLOOP on an empty stack or on a frame that is not a
\* Loop fails the scan at that instruction with INVALID_SHADER, and the
\* diagnostics handed back hold one MISMATCHED_CF line that names endloop.
C9_EndloopAsStated ==
    [][/\ (Scanned("VKD3DSIH_ENDLOOP")
              /\ (Len(Stack) = 0 \/ Top.type # VKD3D_SHADER_BLOCK_LOOP)) =>
              /\ RejectedInvalidShader
              /\ SameStack
              /\ OneNewDiagnostic(VKD3D_SHADER_ERROR_TPF_MISMATCHED_CF)
       /\ ReturnsAfterEndloop =>
              /\ ret' = VKD3D_ERROR_INVALID_SHADER
              /\ ~messages'.is_null
              /\ Len(messages'.lines) = 1
              /\ EndloopLine(messages'.lines[1])]_vars

\* C9 amended: the same, the line being there when the log level is ERROR
\* or higher; below it the scan fails alike and the diagnostics are empty.
C9_Endloop ==
    [][/\ (Scanned("VKD3DSIH_ENDLOOP")
              /\ (Len(Stack) = 0 \/ Top.type # VKD3D_SHADER_BLOCK_LOOP)) =>
              /\ RejectedInvalidShader
              /\ SameStack
              /\ IF ErrorsLogged
                 THEN OneNewDiagnostic(VKD3D_SHADER_ERROR_TPF_MISMATCHED_CF)
                 ELSE SameDiagnostics
       /\ ReturnsAfterEndloop =>
              /\ ret' = VKD3D_ERROR_INVALID_SHADER
              /\ ~messages'.is_null
              /\ IF ErrorsLogged
                 THEN Len(messages'.lines) = 1 /\ EndloopLine(messages'.lines[1])
                 ELSE messages'.lines = <<>>]_vars

\* the scan of a three-instruction stream that leaves an If frame with its
\* block open (IF, ELSE, ENDLOOP) returned INVALID_SHADER with the one line,
\* at line 4
C9_Witness ==
    /\ pc = "returned"
    /\ ptr = 3
    /\ instruction.handler_idx = "VKD3DSIH_ENDLOOP"
    /\ ret = VKD3D_ERROR_INVALID_SHADER
    /\ Stack = <<[type |-> VKD3D_SHADER_BLOCK_IF, inside_block |-> TRUE, has_default |-> FALSE]>>
    /\ messages.lines =
           <<[prefix |-> <<SourceName, 4, 1>>,
              error |-> VKD3D_SHADER_ERROR_TPF_MISMATCHED_CF,
              text |-> TextEndloop]>>


----------------------------------------------------------------------------
(* Resource scanner.                                                        *)

Table == scan_descriptor_info.descriptors

\* the positions, among the declarations read, of the UAV declarations with
\* register id r
UavDeclaredAt(r) ==
    {k \in 1..Len(declared) :
        /\ declared[k].declaration.reg.type = VKD3DSPR_UAV
        /\ declared[k].declaration.reg.idx = r}

\* the UAV declarations read so far have pairwise distinct register ids
DistinctUavIds ==
    \A r \in UavIds : Cardinality(UavDeclaredAt(r)) <= 1

\* the step ORs these flags into descriptor k and changes nothing else of
\* the table
OnlyFlagged(k, flags) ==
    /\ Len(Table) = Len(declared)
    /\ scan_descriptor_info'.descriptors = [Table EXCEPT ![k].flags = @ \cup flags]

\* C6: with the UAVs declared so far having pairwise distinct register ids,
\* an LD_UAV_TYPED whose UAV operand has id r, r declared, is accepted and
\* sets UAV_READ on the descriptor at the position of the declaration of r;
\* no other descriptor and no other field changes, whatever register_space
\* and register_index the declarations share.
C6_TypedLoad ==
    [][\A r \in UavIds : \A k \in UavDeclaredAt(r) :
          (Scanned("VKD3DSIH_LD_UAV_TYPED") /\ instruction' = LdUavTyped(r) /\ DistinctUavIds)
              => (Accepted /\ OnlyFlagged(k, {UAV_READ}))]_vars

\* two UAVs with distinct ids and the same register_space and register_index
\* are declared, a typed load on the second was scanned: the second
\* descriptor alone has UAV_READ
C6_Witness ==
    /\ pc = "loop"
    /\ instruction.handler_idx = "VKD3DSIH_LD_UAV_TYPED"
    /\ DistinctUavIds
    /\ Len(Table) = 2
    /\ \A k \in 1..2 : Table[k].type = TYPE_UAV
    /\ Table[1].register_index = Table[2].register_index
    /\ Table[1].register_space = Table[2].register_space
    /\ UavDeclaredAt(instruction.src[2].idx) = {2}
    /\ Table[1].flags = {}
    /\ Table[2].flags = {UAV_READ}

\* C7 as stated: an IMM_ATOMIC_ALLOC on a declared UAV whose descriptor has
\* no UAV_READ yet sets UAV_COUNTER and leaves UAV_READ clear.
C7_AllocAsStated ==
    [][\A r \in UavIds : \A k \in UavDeclaredAt(r) :
          (/\ Scanned("VKD3DSIH_IMM_ATOMIC_ALLOC")
           /\ instruction' = ImmAtomicAlloc(r)
           /\ DistinctUavIds
           /\ Len(Table) = Len(declared)
           /\ UAV_READ \notin Table[k].flags)
              => (Accepted /\ OnlyFlagged(k, {UAV_COUNTER}))]_vars

\* C7: an IMM_ATOMIC_ALLOC whose first source operand is a declared UAV is
\* accepted and sets both UAV_COUNTER and UAV_READ on that UAV's descriptor
\* (IMM_ATOMIC_ALLOC is in the UAV-read class); nothing else of the table
\* changes.
C7_Alloc ==
    [][\A r \in UavIds : \A k \in UavDeclaredAt(r) :
          (Scanned("VKD3DSIH_IMM_ATOMIC_ALLOC") /\ instruction' = ImmAtomicAlloc(r) /\ DistinctUavIds)
              => (Accepted /\ OnlyFlagged(k, {UAV_COUNTER, UAV_READ}))]_vars

\* an IMM_ATOMIC_ALLOC was the first access scanned after a declaration of
\* its UAV: the descriptor has both flags although no load was read
C7_Witness ==
    /\ pc = "loop"
    /\ instruction.handler_idx = "VKD3DSIH_IMM_ATOMIC_ALLOC"
    /\ DistinctUavIds
    /\ ptr = Len(declared) + 1
    /\ \E k \in UavDeclaredAt(instruction.src[1].idx) :
           /\ k <= Len(Table)
           /\ Table[k].flags = {UAV_COUNTER, UAV_READ}
           /\ \A j \in 1..Len(Table) : j # k => Table[j].flags = {}

----------------------------------------------------------------------------
(* Whole passes.                                                            *)

\* C8: the first call on the shader <<cb, typed UAV r, typed load on r,
\* counter allocate on r, ret>> returns VKD3D_OK, hands back no message, and
\* leaves a table of two descriptors, the CBV without flags and then the UAV
\* with UAV_READ and UAV_COUNTER.
C8_Scenario ==
    \A r \in UavIds, index \in RegisterIndices :
        (pc = "returned" /\ pass.number = 1 /\ code = Scenario(r, index))
            => /\ ret = VKD3D_OK
               /\ ~messages.is_null
               /\ messages.lines = <<>>
               /\ ~scan_descriptor_info.freed
               /\ Len(Table) = 2
               /\ Table[1].type = TYPE_CBV
               /\ Table[1].register_space = 0
               /\ Table[1].register_index = 0
               /\ Table[1].flags = {}
               /\ Table[2].type = TYPE_UAV
               /\ Table[2].register_space = 0
               /\ Table[2].register_index = index
               /\ Table[2].flags = {UAV_READ, UAV_COUNTER}

\* the first call on the scenario with a UAV of non-zero id has returned
C8_Witness ==
    /\ pc = "returned"
    /\ pass.number = 1
    /\ ptr = Len(code)
    /\ \E r \in UavIds \ {0} : code = Scenario(r, 1)
    /\ Len(Table) = 2

\* C10: when the first call succeeded, the second call on the same shader,
\* given the same structure or a new one, starts its loop with an empty
\* table and returns VKD3D_OK with a table equal to the first call's.
C10_SecondScan ==
    (pass.number = 2 /\ first_scan.ret = VKD3D_OK)
        => /\ (pc = "loop" /\ ptr = 0) => (Table = <<>> /\ ~scan_descriptor_info.freed)
           /\ Len(Table) <= Len(first_scan.descriptors)
           /\ pc = "returned"
                  => (ret = VKD3D_OK /\ Table = first_scan.descriptors)

\* the second call, given the structure the first call filled, has returned
\* after a shader that declares resources and flags a UAV
C10_Witness ==
    /\ pc = "returned"
    /\ pass.number = 2
    /\ pass.same_info
    /\ first_scan.ret = VKD3D_OK
    /\ Len(Table) = 2
    /\ \E k \in 1..Len(Table) : Table[k].flags = {UAV_READ, UAV_COUNTER}

\* as C10_Witness, with a new structure
C10_WitnessFresh ==
    /\ pc = "returned"
    /\ pass.number = 2
    /\ ~pass.same_info
    /\ first_scan.ret = VKD3D_OK
    /\ Len(Table) = 2
    /\ \E k \in 1..Len(Table) : Table[k].flags # {}

----------------------------------------------------------------------------
(* String buffer.                                                           *)

\* C11: as long as no allocation failed, after any sequence of
\* vkd3d_string_buffer_vprintf calls the content of the buffer, the string
\* it holds and the string copy_messages hands back are the concatenation of
\* the texts in call order, and the content fits the allocation with its
\* terminator.
C11_Concatenation ==
    appended.allocated
        => /\ string_buffer.content_size = Len(appended.text)
           /\ string_buffer.content_size < string_buffer.buffer_size
           /\ Len(string_buffer.buffer) = string_buffer.buffer_size
           /\ SubSeq(string_buffer.buffer, 1, string_buffer.content_size) = appended.text
           /\ CString(string_buffer.buffer) = appended.text
           /\ CString(CopyMessages(string_buffer)) = appended.text

\* a text longer than the whole buffer was printed after another text, the
\* buffer grew beyond twice its first size, and every allocation succeeded
C11_Witness ==
    /\ appended.allocated
    /\ appended.calls >= 2
    /\ Len(appended.text) > 2 * StringBufferInitialSize
    /\ string_buffer.buffer_size > 2 * StringBufferInitialSize
    /\ string_buffer.content_size = Len(appended.text)

----------------------------------------------------------------------------
(* Failed appends.                                                          *)

\* C12: when a vkd3d_array_reserve fails while an instruction is scanned, the
\* pass stops at that instruction with VKD3D_ERROR_OUT_OF_MEMORY, and the
\* stack, the descriptor table and the range map are as they were.
C12_FailedAppendStops ==
    [][(pc = "loop" /\ ptr' = ptr + 1 /\ reserve_failed' # {})
          => /\ pc' = "done"
             /\ ret' = VKD3D_ERROR_OUT_OF_MEMORY
             /\ context'.cf_info = context.cf_info
             /\ context'.uav_ranges = context.uav_ranges
             /\ scan_descriptor_info'.descriptors = scan_descriptor_info.descriptors]_vars

----------------------------------------------------------------------------
(* Calls of vkd3d_shader_scan.                                              *)

\* the call returned before the shader was touched: nothing was decoded and
\* nothing was read
NothingDecoded ==
    /\ parser = "uninitialised"
    /\ ptr = 0
    /\ context = NoContext
    /\ released = NothingReleased

\* the call returned VKD3D_ERROR_INVALID_ARGUMENT without touching the
\* shader, *messages being NULL when the caller passed messages
RefusedRequest ==
    /\ pc = "returned"
    /\ ret = VKD3D_ERROR_INVALID_ARGUMENT
    /\ compile_info.messages => messages = NullMessages
    /\ NothingDecoded

\* C13 as stated: past its entry, a call with an unsupported structure
\* type, source type or target type has returned
\* VKD3D_ERROR_INVALID_ARGUMENT, with *messages NULL and nothing decoded.
C13_TagsAsStated ==
    (/\ pc # "entry"
     /\ \/ compile_info.type # VKD3D_SHADER_STRUCTURE_TYPE_COMPILE_INFO
        \/ compile_info.source_type # VKD3D_SHADER_SOURCE_DXBC_TPF
        \/ compile_info.target_type # VKD3D_SHADER_TARGET_SPIRV_BINARY)
        => RefusedRequest

\* C13: past its entry, a call with an unsupported structure type or source
\* type has returned VKD3D_ERROR_INVALID_ARGUMENT, with *messages NULL and
\* nothing decoded; the target type is not looked at.
C13_Tags ==
    (/\ pc # "entry"
     /\ \/ compile_info.type # VKD3D_SHADER_STRUCTURE_TYPE_COMPILE_INFO
        \/ compile_info.source_type # VKD3D_SHADER_SOURCE_DXBC_TPF)
        => RefusedRequest

\* a call with the supported structure type and an unsupported source type,
\* the caller having passed messages, has been refused
C13_Witness ==
    /\ RefusedRequest
    /\ compile_info.type = VKD3D_SHADER_STRUCTURE_TYPE_COMPILE_INFO
    /\ compile_info.source_type # VKD3D_SHADER_SOURCE_DXBC_TPF
    /\ compile_info.messages

\* C14: when a call that collects descriptors has returned a failure, the
\* caller's structure holds no descriptor and no pointer to storage the call
\* freed (so that vkd3d_shader_free_scan_descriptor_info, called on it
\* afterwards, frees nothing a second time).
C14_NoPartialOutput ==
    (pc = "returned" /\ Failed(ret) /\ compile_info.has_info)
        => /\ Table = <<>>
           /\ ~scan_descriptor_info.freed

\* the caller's *messages is a copy of the diagnostics of the call
DiagnosticsCopied ==
    messages = [is_null |-> FALSE, lines |-> context.message_context.messages]

\* C15: a call whose context was initialised returns, from the failed decoder
\* initialisation or from done:, having released nothing before; on the
\* return the diagnostics are copied to the caller when requested (and
\* *messages is otherwise left alone), the control-flow stack, the UAV range
\* map and the message context have been released once each, and the decoder
\* once when it was initialised and not at all when it was not.
C15_ReleasedOnce ==
    [][(pc \in {"parser_init", "done"} /\ pc' = "returned")
          => /\ released = NothingReleased
             /\ IF compile_info.messages THEN DiagnosticsCopied' ELSE messages' = messages
             /\ released'.cf_info = 1
             /\ released'.uav_ranges = 1
             /\ released'.message_context = 1
             /\ released'.parser = (IF parser = "initialised" THEN 1 ELSE 0)
             /\ parser' = (IF parser = "initialised" THEN "destroyed" ELSE parser)
             /\ (pc = "parser_init") = (parser = "uninitialised")]_vars

\* the decoder failed to initialise and reported it; the call returned with
\* the diagnostic copied, the context released and the decoder untouched
C15_Witness ==
    /\ pc = "returned"
    /\ parser = "uninitialised"
    /\ released.cf_info = 1
    /\ released.parser = 0
    /\ compile_info.messages
    /\ DiagnosticsCopied
    /\ messages.lines # <<>>

\* a rejected instruction ended the call, which returned with the diagnostic
\* copied and the context and the decoder released
C15_WitnessRejected ==
    /\ pc = "returned"
    /\ ret = VKD3D_ERROR_INVALID_SHADER
    /\ parser = "destroyed"
    /\ released.cf_info = 1
    /\ released.parser = 1
    /\ compile_info.messages
    /\ DiagnosticsCopied
    /\ messages.lines # <<>>

\* vkd3d_shader_verror was called during the step
Recorded ==
    Len(context'.message_context.errors) = Len(context.message_context.errors) + 1

\* the line vkd3d_shader_verror appended during the step
RecordedLine == context'.message_context.messages[Len(Diagnostics) + 1]

\* the status of `ins` when the context's log level is `level`
StatusAtLevel(ins, level) ==
    vkd3d_shader_scan_instruction(
        [context |-> [context EXCEPT !.message_context.log_level = level],
         info |-> scan_descriptor_info, ub |-> FALSE],
        ins, {}).ret

\* C16: a call of vkd3d_shader_verror appends nothing when the context's log
\* level is below ERROR, and otherwise exactly one line, whose prefix is
\* source, line and column when the context's line is not 0 and the source
\* alone when it is 0, followed by the error code; and the status of an
\* instruction is the same at every log level.
C16_Record ==
    [][/\ Recorded
          => IF ~ErrorsLogged'
             THEN context'.message_context.messages = context.message_context.messages
             ELSE /\ Len(context'.message_context.messages) = Len(Diagnostics) + 1
                  /\ SubSeq(context'.message_context.messages, 1, Len(Diagnostics)) = Diagnostics
                  /\ RecordedLine.error =
                         context'.message_context.errors[Len(context'.message_context.errors)]
                  /\ RecordedLine.prefix =
                         (IF context'.message_context.line # 0
                          THEN <<context'.message_context.source_name,
                                 context'.message_context.line,
                                 context'.message_context.column>>
                          ELSE <<context'.message_context.source_name>>)
       /\ pc = "loop"
          => \A ins \in CallStream : \A i \in 1..Len(LogLevelOrder) :
                 StatusAtLevel(ins, LogLevelOrder[i])
                     = StatusAtLevel(ins, context.message_context.log_level)]_vars

\* one line without a position (the decoder's, at line 0) was recorded
C16_Witness ==
    /\ ErrorsLogged
    /\ Len(Diagnostics) = 1
    /\ Diagnostics[1].prefix = <<SourceName>>
    /\ context.message_context.line = 0

\* one line with a position was recorded for a rejected instruction
C16_WitnessPosition ==
    /\ ErrorsLogged
    /\ ret = VKD3D_ERROR_INVALID_SHADER
    /\ Len(Diagnostics) = 1
    /\ Len(Diagnostics[1].prefix) = 3
    /\ context.message_context.line > 2

\* an error was recorded below ERROR and nothing was appended
C16_WitnessFiltered ==
    /\ ~ErrorsLogged
    /\ ret = VKD3D_ERROR_INVALID_SHADER
    /\ Len(context.message_context.errors) = 1
    /\ Diagnostics = <<>>

----------------------------------------------------------------------------
(* Calls of vkd3d_shader_compile.                                           *)

\* the calls of vkd3d_dxbc_compiler_handle_instruction so far
Handled == spirv_compiler.handled

\* every diagnostic of the message context `mc` carries the position of
\* instruction k
AllAtInstruction(mc, k) ==
    \A i \in 1..Len(mc.messages) : mc.messages[i].prefix = <<SourceName, k + 1, 1>>

\* C17: in both passes the position is line k + 1, column 1 while
\* instruction k is validated or handed to the backend: the loop is entered
\* for instruction ptr + 1 at line ptr + 2, the line stays where it was when
\* the instruction failed (and its diagnostics carry that line), and each
\* instruction k reached the backend at line k + 1, column 1.
C17_Position ==
    /\ pc = "loop"
          => /\ context.message_context.line = ptr + 2
             /\ context.message_context.column = 1
    /\ pc = "done"
          => /\ context.message_context.line = (IF Failed(ret) THEN ptr + 1 ELSE ptr + 2)
             /\ context.message_context.column = 1
             /\ AllAtInstruction(context.message_context, ptr)
    /\ \A k \in 1..Len(Handled) :
           /\ Handled[k].line = k + 1
           /\ Handled[k].column = 1
    /\ pc = "compile_loop"
          => /\ message_context.line = ptr + 2
             /\ message_context.column = 1
    /\ pc = "compile_end"
          => /\ message_context.line = ptr + 1
             /\ message_context.column = 1
             /\ AllAtInstruction(message_context, ptr)

\* the backend refused the second instruction and reported it, at line 3
C17_Witness ==
    /\ pc = "compile_end"
    /\ Len(Handled) = 2
    /\ Handled[2].line = 3
    /\ Failed(Handled[2].ret)
    /\ Len(message_context.messages) = 1
    /\ message_context.messages[1].prefix = <<SourceName, 3, 1>>

\* the scan inside the call rejected the second instruction, at line 3
C17_WitnessScan ==
    /\ pc = "done"
    /\ ptr = 2
    /\ Len(Diagnostics) = 1
    /\ Diagnostics[1].prefix = <<SourceName, 3, 1>>

\* every instruction handed to the backend was handled
AllHandled(handled) == \A k \in 1..Len(handled) : ~Failed(handled[k].ret)

\* the loop of the compile pass was left by a break
Stopped ==
    \/ ~AllHandled(Handled)
    \/ /\ pc \in {"compile_end", "compile_done", "compile_returned"}
       /\ instruction.handler_idx = "VKD3DSIH_INVALID"

\* C19: the backend is handed the instructions of the stream in order, one
\* more per turn; once an instruction was unrecognised or refused by the
\* backend, nothing more is handed over and generate is not called; generate
\* is called at most once, only after every instruction of the stream was
\* handled, and once when the call returns after that.
C19_Forwarding ==
    [][/\ \A k \in 1..Len(Handled') : Handled'[k].instruction = code[k]
       /\ \/ Handled' = Handled
          \/ /\ Len(Handled') = Len(Handled) + 1
             /\ SubSeq(Handled', 1, Len(Handled)) = Handled
       /\ Stopped => /\ Handled' = Handled
                     /\ spirv_compiler'.generated = 0
       /\ spirv_compiler'.generated <= 1
       /\ spirv_compiler'.generated = 1
             => /\ Len(Handled') = Len(code)
                /\ AllHandled(Handled')
       /\ (/\ pc' = "compile_returned"
           /\ spirv_compiler'.state # "none"
           /\ Len(Handled') = Len(code)
           /\ AllHandled(Handled'))
             => spirv_compiler'.generated = 1]_vars

\* three instructions were handled in order and generate was called once
C19_Witness ==
    /\ pc = "compile_returned"
    /\ Len(code) = 3
    /\ Len(Handled) = 3
    /\ AllHandled(Handled)
    /\ spirv_compiler.generated = 1

\* the backend refused the first of two instructions: the second was not
\* handed over and generate was not called
C19_WitnessRefused ==
    /\ pc = "compile_returned"
    /\ Len(code) = 2
    /\ Len(Handled) = 1
    /\ ~AllHandled(Handled)
    /\ spirv_compiler.generated = 0

----------------------------------------------------------------------------
(* Calls that collect no descriptors.                                       *)

\* what the loop of a call that collects descriptors comes to on the same
\* shader, at the same log level
Collecting == ScanAlone(TRUE, context.message_context.log_level, code)

\* C18: in a call without a descriptor-info structure no descriptor and no
\* UAV range is ever created and no descriptor is looked up (so that no
\* instruction can fault on a missing one); the call returns what a call
\* that collects descriptors returns on the same shader: the same status,
\* the same diagnostics and the same control-flow stack.
C18_NoCollection ==
    /\ Table = <<>>
    /\ ~scan_descriptor_info.freed
    /\ context.uav_ranges = <<>>
    /\ pc # "crashed"
    /\ pc = "returned"
          => /\ ret = Collecting.ret
             /\ Diagnostics = Collecting.st.context.message_context.messages
             /\ context.cf_info = Collecting.st.context.cf_info

\* a call without collection returned on a shader that declares a UAV and
\* reads it inside an if block, for which a collecting call has a table
C18_Witness ==
    /\ pc = "returned"
    /\ ~context.scan_descriptor_info
    /\ code = <<DclUavTyped(0, 0), Ins("VKD3DSIH_IF"), LdUavTyped(0)>>
    /\ Collecting.st.info.descriptors # <<>>
    /\ Collecting.st.context.uav_ranges # <<>>

\* a call without collection was rejected, after a UAV access no
\* declaration introduced
C18_WitnessRejected ==
    /\ pc = "returned"
    /\ ret = VKD3D_ERROR_INVALID_SHADER
    /\ code = <<LdUavTyped(0), Ins("VKD3DSIH_ENDIF")>>
    /\ Collecting.st.ub

----------------------------------------------------------------------------
(* Two calls on two threads.                                                *)

\* a call that returned handed back what its loop comes to when it runs
\* alone: the status, the descriptor table, the diagnostics
AsAlone(call) ==
    call.pc = "returned"
        => \E alone \in {ScanAlone(call.compile_info.has_info,
                                    call.compile_info.log_level, call.code)} :
               /\ call.ret = alone.ret
               /\ call.scan_descriptor_info = alone.st.info
               /\ call.messages =
                      [is_null |-> FALSE, lines |-> alone.st.context.message_context.messages]

\* C20: however the two calls are interleaved, neither dies, and each one
\* that returned handed back the status, the descriptor table and the
\* diagnostics of the same call running alone.
C20_Interleaved ==
    /\ pc # "crashed"
    /\ AsAlone(Running)
    /\ AsAlone(peer)

\* one call returned with a table while the other, which collects
\* descriptors too and has read part of another shader, was suspended
C20_Witness ==
    /\ pc = "returned"
    /\ Table # <<>>
    /\ peer.pc = "loop"
    /\ peer.ptr >= 1
    /\ peer.code # code
    /\ peer.scan_descriptor_info.descriptors # <<>>
    /\ peer.scan_descriptor_info.descriptors # Table

----------------------------------------------------------------------------
(* Descriptor table and UAV range map.                                      *)

\* the kind of descriptor a declaration stands for
DescriptorTypeOf(ins) ==
    CASE ins.handler_idx = "VKD3DSIH_DCL_CONSTANT_BUFFER" -> TYPE_CBV
      [] ins.handler_idx = "VKD3DSIH_DCL_SAMPLER" -> TYPE_SAMPLER
      [] ins.declaration.reg.type = VKD3DSPR_UAV -> TYPE_UAV
      [] OTHER -> TYPE_SRV

\* entry `after` is entry `before` with, at most, more flag bits
OnlyGainedFlags(before, after) ==
    /\ after.type = before.type
    /\ after.register_space = before.register_space
    /\ after.register_index = before.register_index
    /\ after.resource_type = before.resource_type
    /\ after.resource_data_type = before.resource_data_type
    /\ after.count = before.count
    /\ before.flags \subseteq after.flags

\* C21: with the descriptor info requested and allocations succeeding, a
\* step never shrinks or reorders the table and changes an entry only by
\* adding flag bits; a declaration of any kind appends exactly one entry, of
\* its kind, register space and register index, with count 1, at the end;
\* no other step appends.
C21_AppendOnly ==
    [][/\ Len(scan_descriptor_info'.descriptors) >= Len(Table)
       /\ \A k \in 1..Len(Table) :
              OnlyGainedFlags(Table[k], scan_descriptor_info'.descriptors[k])
       /\ scan_descriptor_info'.freed = scan_descriptor_info.freed
       /\ IF pc = "loop" /\ ptr' = ptr + 1 /\ pc' # "crashed"
             /\ instruction'.handler_idx \in DeclarationHandlers
          THEN /\ Len(scan_descriptor_info'.descriptors) = Len(Table) + 1
               /\ \E d \in {scan_descriptor_info'.descriptors[Len(Table) + 1]} :
                      /\ d.count = 1
                      /\ d.type = DescriptorTypeOf(instruction')
                      /\ d.register_space = instruction'.declaration.register_space
                      /\ d.register_index = instruction'.declaration.register_index
          ELSE Len(scan_descriptor_info'.descriptors) = Len(Table)]_vars

\* a sampler was declared after a raw UAV that had been given its counter
\* flag: the table holds both, the UAV first, with its flags
C21_Witness ==
    /\ pc = "loop"
    /\ instruction = DclSampler
    /\ Len(Table) = 2
    /\ Table[1].type = TYPE_UAV
    /\ UAV_COUNTER \in Table[1].flags
    /\ Table[2].type = TYPE_SAMPLER
    /\ Table[2].count = 1
    /\ Table[2].flags = {SAMPLER_COMPARISON_MODE}

\* the entries of the UAV range map that point at descriptor k
RangesOf(k) ==
    {i \in 1..Len(context.uav_ranges) : context.uav_ranges[i].descriptor_idx + 1 = k}

\* C22: while the pass runs with the descriptor info requested, whether or
\* not an append failed, every UAV descriptor is pointed at by exactly one
\* entry of the range map, and every entry of the range map points into the
\* table, at a UAV descriptor.
C22_OneToOne ==
    (pc = "loop" /\ context.scan_descriptor_info)
        => /\ \A k \in 1..Len(Table) :
                  Table[k].type = TYPE_UAV => Cardinality(RangesOf(k)) = 1
           /\ \A i \in 1..Len(context.uav_ranges) :
                  /\ context.uav_ranges[i].descriptor_idx + 1 \in 1..Len(Table)
                  /\ Table[context.uav_ranges[i].descriptor_idx + 1].type = TYPE_UAV

\* the position, among the declarations read, of the first declaration of
\* the UAV with register id r
FirstDeclaredAt(r) == CHOOSE k \in UavDeclaredAt(r) : \A j \in UavDeclaredAt(r) : k <= j

UavOperands(ins) ==
    {ins.dst[i] : i \in {j \in 1..Len(ins.dst) : ins.dst[j].type = VKD3DSPR_UAV}}
        \cup {ins.src[i] : i \in {j \in 1..Len(ins.src) : ins.src[j].type = VKD3DSPR_UAV}}

\* C24: when an instruction of the UAV-read class is scanned with the
\* descriptor info requested, the lookup made for each of its UAV operands
\* yields an entry of the descriptor table (never NULL), on any stream.
C24_LookupResolves ==
    [][(/\ pc = "loop"
        /\ ptr' = ptr + 1
        /\ context.scan_descriptor_info
        /\ vkd3d_shader_instruction_is_uav_read(instruction'))
          => \A reg \in UavOperands(instruction') :
                 vkd3d_shader_scan_get_uav_descriptor_info(context, reg.idx)
                     \in 1..Len(Table)]_vars

----------------------------------------------------------------------------
(* C25: the depth of the control-flow stack.                                *)

\* the instructions of the shader the loop has accepted so far: all that
\* were read while the loop goes on or ended at the end of the shader, all
\* but the last one when the pass stopped at it
AcceptedSoFar ==
    IF pc = "crashed" \/ (pc \in {"done", "returned"} /\ Failed(ret))
    THEN SubSeq(code, 1, ptr - 1)
    ELSE SubSeq(code, 1, ptr)

OpensIn(program) ==
    Cardinality({k \in DOMAIN program : program[k].handler_idx \in OpenHandlers})

ClosesIn(program) ==
    Cardinality({k \in DOMAIN program : program[k].handler_idx \in CloseHandlers})

\* every instruction the scanner tells apart, and one it does not
EveryInstruction ==
    (ControlFlowStream \ {Ins("VKD3DSIH_INVALID")}) \cup DeclarationStream

\* The whole shader was accepted and the loop is about to read on.  A shader
\* cut after any instruction is a shader too, so every state the loop goes
\* through is also such a state.
AtEndOfShader == pc = "loop" /\ ptr = Len(code)

\* what scanning `ins` in the current state does to the depth
DepthChange(ins) ==
    LET r == vkd3d_shader_scan_instruction(
                 [context |-> context, info |-> scan_descriptor_info, ub |-> FALSE],
                 ins, {})
    IN  [by |-> cf_info_count(r.st.context) - cf_info_count(context),
         accepted |-> ~Failed(r.ret)]

\* C25: at every point of a pass the depth of the control-flow stack is the
\* number of accepted IF, LOOP and SWITCH minus the number of accepted ENDIF,
\* ENDLOOP and ENDSWITCH; an accepted open adds exactly one frame, an
\* accepted close removes exactly one, and no other instruction (ELSE, CASE,
\* DEFAULT, BREAK, BREAKP, CONTINUE, CONTINUEP, RET, a declaration, a
\* resource access, a rejected open or close) changes the depth.
C25_Depth ==
    /\ Len(Stack) = OpensIn(AcceptedSoFar) - ClosesIn(AcceptedSoFar)
    /\ AtEndOfShader =>
           \A ins \in EveryInstruction :
               \E change \in {DepthChange(ins)} :
                   change.by =
                       IF change.accepted /\ ins.handler_idx \in OpenHandlers THEN 1
                       ELSE IF change.accepted /\ ins.handler_idx \in CloseHandlers
                            THEN 0 - 1
                       ELSE 0

\* two opens and a close were accepted and one frame is left
C25_Witness ==
    /\ pc = "loop"
    /\ OpensIn(AcceptedSoFar) = 2
    /\ ClosesIn(AcceptedSoFar) = 1
    /\ Len(Stack) = 1
    /\ instruction.handler_idx \in CloseHandlers

----------------------------------------------------------------------------
(* C26: the end of the stream with constructs left open.                    *)

\* this step is the loop finding the end of the stream: no instruction is
\* read
EndOfStream == pc = "loop" /\ pc' = "done" /\ ptr' = ptr

\* C26: when the loop reaches the end of the stream, no instruction having
\* been rejected, the pass returns VKD3D_OK and reports nothing, whatever is
\* left on the control-flow stack: no error was reported to the message
\* context during the pass, none is reported at the end, and the messages
\* handed back are empty.
C26_MissingClose ==
    [][/\ EndOfStream =>
            /\ ret' = VKD3D_OK
            /\ context.message_context.errors = <<>>
            /\ Diagnostics = <<>>
            /\ NothingReported
            /\ SameStack
       /\ (pc = "done" /\ ret = VKD3D_OK /\ pc' = "returned") =>
            /\ ret' = VKD3D_OK
            /\ ~messages'.is_null
            /\ messages'.lines = <<>>]_vars

\* a pass returned VKD3D_OK and no diagnostic with a LOOP that was never
\* closed and an IF inside it
C26_Witness ==
    /\ pc = "returned"
    /\ ret = VKD3D_OK
    /\ Len(Stack) = 2
    /\ Stack[1].type = VKD3D_SHADER_BLOCK_LOOP
    /\ Stack[2].type = VKD3D_SHADER_BLOCK_IF
    /\ ErrorsLogged
    /\ messages.lines = <<>>

----------------------------------------------------------------------------
(* C27: RET.                                                                *)

\* the stack with inside_block of its top frame cleared
TopClosed ==
    IF Len(Stack) = 0 THEN Stack ELSE [Stack EXCEPT ![Len(Stack)].inside_block = FALSE]

\* C27: RET is never rejected and reports nothing; on a non-empty stack it
\* clears inside_block of the top frame, of whatever type, and leaves the
\* depth, the other fields of that frame and every other frame as they are;
\* on an empty stack it leaves the stack empty; the descriptor table and the
\* UAV range map are not touched.  So a RET inside an If nested in a switch
\* case leaves inside_block of the Switch frame set, and an ENDSWITCH that
\* directly follows a RET on a Switch top is accepted and pops the frame.
C27_Ret ==
    [][/\ Scanned("VKD3DSIH_RET") =>
              /\ Accepted
              /\ NothingReported
              /\ context'.cf_info = TopClosed
              /\ context'.uav_ranges = context.uav_ranges
              /\ scan_descriptor_info' = scan_descriptor_info
       /\ (Scanned("VKD3DSIH_RET") /\ Len(Stack) >= 2
               /\ Top.type = VKD3D_SHADER_BLOCK_IF
               /\ Stack[Len(Stack) - 1].type = VKD3D_SHADER_BLOCK_SWITCH
               /\ Stack[Len(Stack) - 1].inside_block) =>
              /\ context'.cf_info[Len(Stack) - 1].inside_block
              /\ ~context'.cf_info[Len(Stack)].inside_block
       /\ (Scanned("VKD3DSIH_ENDSWITCH") /\ instruction.handler_idx = "VKD3DSIH_RET"
               /\ Len(Stack) > 0 /\ Top.type = VKD3D_SHADER_BLOCK_SWITCH) =>
              Accepted /\ Popped /\ NothingReported]_vars

\* a RET was accepted inside an If nested in a switch case: the If frame is
\* closed, the Switch frame below it still open
C27_Witness ==
    /\ pc = "loop"
    /\ instruction.handler_idx = "VKD3DSIH_RET"
    /\ ret = VKD3D_OK
    /\ Len(Stack) = 2
    /\ Stack[1].type = VKD3D_SHADER_BLOCK_SWITCH /\ Stack[1].inside_block
    /\ Stack[2].type = VKD3D_SHADER_BLOCK_IF /\ ~Stack[2].inside_block

----------------------------------------------------------------------------
(* C28: ELSE.                                                               *)

\* C28: ELSE is accepted exactly when the top frame is an If frame.  It then
\* sets inside_block of that frame, reports nothing and leaves the depth,
\* the frame's type and has_default and every other frame as they are, so
\* that an ELSE directly after an accepted ELSE is accepted as well.  On an
\* empty stack and on a Loop or Switch top it is rejected with MISMATCHED_CF
\* and the stack is unchanged.
C28_Else ==
    [][/\ Scanned("VKD3DSIH_ELSE") =>
              IF Len(Stack) > 0 /\ Top.type = VKD3D_SHADER_BLOCK_IF
              THEN /\ Accepted
                   /\ NothingReported
                   /\ context'.cf_info = [Stack EXCEPT ![Len(Stack)].inside_block = TRUE]
              ELSE /\ RejectedWith(VKD3D_SHADER_ERROR_TPF_MISMATCHED_CF)
                   /\ SameStack
       /\ (Scanned("VKD3DSIH_ELSE") /\ instruction.handler_idx = "VKD3DSIH_ELSE") =>
              Accepted /\ SameStack]_vars

\* an ELSE was accepted on an If frame that is nested in a loop and that a
\* RET had closed before
C28_Witness ==
    /\ pc = "loop"
    /\ instruction.handler_idx = "VKD3DSIH_ELSE"
    /\ ret = VKD3D_OK
    /\ ptr = 4
    /\ Len(Stack) = 2
    /\ Stack[1].type = VKD3D_SHADER_BLOCK_LOOP /\ ~Stack[1].inside_block
    /\ Stack[2].type = VKD3D_SHADER_BLOCK_IF /\ Stack[2].inside_block

\* an ELSE was rejected on a Switch top, the stack being left as it was
C28_WitnessRejected ==
    /\ pc = "done"
    /\ instruction.handler_idx = "VKD3DSIH_ELSE"
    /\ ret = VKD3D_ERROR_INVALID_SHADER
    /\ Len(Stack) = 1
    /\ Top.type = VKD3D_SHADER_BLOCK_SWITCH
    /\ context.message_context.errors = <<VKD3D_SHADER_ERROR_TPF_MISMATCHED_CF>>

----------------------------------------------------------------------------
(* C29: BREAKP and CONTINUEP.                                               *)

\* some frame of the stack is a Loop frame
InsideLoop == \E i \in 1..Len(Stack) : Stack[i].type = VKD3D_SHADER_BLOCK_LOOP

\* C29: BREAKP and CONTINUEP are accepted exactly when some frame of the
\* stack is a Loop frame, at whatever depth and whatever lies above it, a
\* stack of Switch and If frames alone being rejected with MISMATCHED_CF;
\* accepted or rejected, they leave the depth and every frame's type,
\* inside_block and has_default as they are, and an accepted one reports
\* nothing.
C29_Predicated ==
    [][\A h \in {"VKD3DSIH_BREAKP", "VKD3DSIH_CONTINUEP"} :
           Scanned(h) =>
               /\ SameStack
               /\ IF InsideLoop
                  THEN Accepted /\ NothingReported
                  ELSE RejectedWith(VKD3D_SHADER_ERROR_TPF_MISMATCHED_CF)]_vars

\* a BREAKP was accepted in a switch case inside a loop, the case staying
\* open
C29_Witness ==
    /\ pc = "loop"
    /\ instruction.handler_idx = "VKD3DSIH_BREAKP"
    /\ ret = VKD3D_OK
    /\ Len(Stack) = 2
    /\ Stack[1].type = VKD3D_SHADER_BLOCK_LOOP
    /\ Stack[2].type = VKD3D_SHADER_BLOCK_SWITCH /\ Stack[2].inside_block

\* a CONTINUEP was rejected in a switch case that no loop encloses
C29_WitnessRejected ==
    /\ pc = "done"
    /\ instruction.handler_idx = "VKD3DSIH_CONTINUEP"
    /\ ret = VKD3D_ERROR_INVALID_SHADER
    /\ Len(Stack) = 1
    /\ Top.type = VKD3D_SHADER_BLOCK_SWITCH /\ Top.inside_block
    /\ context.message_context.errors = <<VKD3D_SHADER_ERROR_TPF_MISMATCHED_CF>>

----------------------------------------------------------------------------
(* C30: the pass stops at the first instruction it does not take.           *)

\* the diagnostics that report this error
LinesOf(lines, error) == {k \in DOMAIN lines : lines[k].error = error}

\* C30: every instruction the loop reads is either accepted, the loop going
\* on, or ends the pass with VKD3D_ERROR_INVALID_SHADER: an unrecognised
\* instruction without a diagnostic, a rejected control-flow instruction
\* with one MISMATCHED_CF error, both leaving the control-flow stack as it
\* was before the instruction.  Once the loop is left no instruction is read
\* and the status, the stack and the diagnostics stay as they are, so the
\* pass returns that status at that instruction.  At no point do the
\* diagnostics, or the messages handed back, hold more than one
\* MISMATCHED_CF line.
C30_StopsAtFirst ==
    [][/\ (pc = "loop" /\ ptr' = ptr + 1) =>
              \/ Accepted /\ NothingReported
              \/ /\ instruction'.handler_idx = "VKD3DSIH_INVALID"
                 /\ RejectedInvalidShader /\ SameStack /\ NothingReported
              \/ /\ instruction'.handler_idx
                         \in CloseHandlers \cup OtherControlFlowHandlers
                 /\ RejectedWith(VKD3D_SHADER_ERROR_TPF_MISMATCHED_CF)
                 /\ SameStack
                 /\ context.message_context.errors = <<>>
       /\ instruction'.handler_idx = "VKD3DSIH_INVALID" => ~Accepted
       /\ pc # "loop" =>
              /\ ptr' = ptr /\ instruction' = instruction
              /\ ret' = ret /\ context' = context
              /\ pc' \notin {"loop", "crashed"}
       /\ Cardinality(LinesOf(Diagnostics, VKD3D_SHADER_ERROR_TPF_MISMATCHED_CF)) <= 1
       /\ Cardinality(LinesOf(messages'.lines, VKD3D_SHADER_ERROR_TPF_MISMATCHED_CF)) <= 1
       /\ (pc' = "returned" /\ ret' # VKD3D_OK) =>
              /\ ret' = VKD3D_ERROR_INVALID_SHADER
              /\ Len(context'.message_context.errors) <= 1
              /\ messages'.lines = context'.message_context.messages]_vars

\* a pass returned VKD3D_ERROR_INVALID_SHADER at its fourth instruction, an
\* ENDLOOP inside an If inside a loop, with the two frames left and one
\* MISMATCHED_CF line handed back
C30_Witness ==
    /\ pc = "returned"
    /\ ret = VKD3D_ERROR_INVALID_SHADER
    /\ instruction.handler_idx = "VKD3DSIH_ENDLOOP"
    /\ ptr = 4
    /\ Len(Stack) = 2
    /\ Stack[1].type = VKD3D_SHADER_BLOCK_LOOP
    /\ Stack[2].type = VKD3D_SHADER_BLOCK_IF
    /\ Cardinality(LinesOf(messages.lines, VKD3D_SHADER_ERROR_TPF_MISMATCHED_CF)) = 1
    /\ messages.lines[1].prefix = <<SourceName, 5, 1>>

\* a pass returned VKD3D_ERROR_INVALID_SHADER at an unrecognised instruction
\* inside a loop, with no diagnostic
C30_WitnessInvalid ==
    /\ pc = "returned"
    /\ ret = VKD3D_ERROR_INVALID_SHADER
    /\ instruction.handler_idx = "VKD3DSIH_INVALID"
    /\ ptr = 2
    /\ Len(Stack) = 1
    /\ ~messages.is_null /\ messages.lines = <<>>

----------------------------------------------------------------------------
(* C31: the descriptors of resource declarations.                           *)

\* the descriptor data type named like the element type
SameNamed ==
    [t \in ListedDataTypes |->
        CASE t = "VKD3D_DATA_UNORM" -> "VKD3D_SHADER_RESOURCE_DATA_UNORM"
          [] t = "VKD3D_DATA_SNORM" -> "VKD3D_SHADER_RESOURCE_DATA_SNORM"
          [] t = "VKD3D_DATA_INT" -> "VKD3D_SHADER_RESOURCE_DATA_INT"
          [] t = "VKD3D_DATA_UINT" -> "VKD3D_SHADER_RESOURCE_DATA_UINT"
          [] t = "VKD3D_DATA_FLOAT" -> "VKD3D_SHADER_RESOURCE_DATA_FLOAT"]

TypedHandlers == {"VKD3DSIH_DCL", "VKD3DSIH_DCL_UAV_TYPED"}

BufferHandlers ==
    {"VKD3DSIH_DCL_RESOURCE_RAW", "VKD3DSIH_DCL_UAV_RAW",
     "VKD3DSIH_DCL_RESOURCE_STRUCTURED", "VKD3DSIH_DCL_UAV_STRUCTURED"}

\* the entry the step appended to the descriptor table
NewDescriptor == scan_descriptor_info'.descriptors[Len(Table) + 1]

\* C31: with the descriptor info requested and allocations succeeding, a
\* typed resource declaration is accepted whatever its element type and
\* appends a descriptor whose data type is the one named like the element
\* type for UNORM, SNORM, INT, UINT and FLOAT, and FLOAT for any other code,
\* with the declared resource type; a raw or structured declaration appends
\* a descriptor of resource type BUFFER and data type UINT; in both cases
\* the descriptor is a UAV exactly when the declared register is of the UAV
\* file, and an SRV otherwise.
C31_Descriptor ==
    [][(pc = "loop" /\ ptr' = ptr + 1
            /\ instruction'.handler_idx \in TypedHandlers \cup BufferHandlers) =>
          /\ Accepted
          /\ NothingReported
          /\ Len(scan_descriptor_info'.descriptors) = Len(Table) + 1
          /\ NewDescriptor.type = TYPE_UAV <=> instruction'.declaration.reg.type = VKD3DSPR_UAV
          /\ NewDescriptor.type \in {TYPE_UAV, TYPE_SRV}
          /\ IF instruction'.handler_idx \in TypedHandlers
             THEN /\ NewDescriptor.resource_type = instruction'.declaration.resource_type
                  /\ NewDescriptor.resource_data_type =
                         IF instruction'.declaration.resource_data_type \in ListedDataTypes
                         THEN SameNamed[instruction'.declaration.resource_data_type]
                         ELSE "VKD3D_SHADER_RESOURCE_DATA_FLOAT"
             ELSE /\ NewDescriptor.resource_type = "VKD3D_SHADER_RESOURCE_BUFFER"
                  /\ NewDescriptor.resource_data_type = "VKD3D_SHADER_RESOURCE_DATA_UINT"]_vars

\* a typed UAV of an element type the switch has no case for was declared
\* after a typed SRV of SNORM elements: the pass goes on, the table holds an
\* SNORM SRV and a FLOAT UAV
C31_Witness ==
    /\ pc = "loop"
    /\ ret = VKD3D_OK
    /\ instruction = DclTyped("VKD3DSIH_DCL_UAV_TYPED", VKD3DSPR_UAV, "0x7f")
    /\ Len(Table) = 2
    /\ Table[1].type = TYPE_SRV
    /\ Table[1].resource_data_type = "VKD3D_SHADER_RESOURCE_DATA_SNORM"
    /\ Table[2].type = TYPE_UAV
    /\ Table[2].resource_data_type = "VKD3D_SHADER_RESOURCE_DATA_FLOAT"

----------------------------------------------------------------------------
(* C32: what vkd3d_shader_compile holds when it returns.                    *)

\* the descriptor table the scan of vkd3d_shader_compile allocated is still
\* allocated
TableHeld == scan_descriptor_info.descriptors # <<>> /\ ~scan_descriptor_info.freed

\* C32: when vkd3d_shader_compile has returned, on whatever path, nothing
\* it acquired is still held: the descriptor table of its scan was freed if
\* one was allocated, the decoder is not left initialised and the backend
\* is not left created.
C32_AllReleased ==
    pc = "compile_returned" =>
        /\ ~TableHeld
        /\ parser # "initialised"
        /\ spirv_compiler.state # "created"

----------------------------------------------------------------------------
(* C33: the lookup of VKD3D_SHADER_DUMP_PATH.                               *)

\* this step of vkd3d_shader_compile calls vkd3d_shader_dump_shader: the
\* decoder was initialised
DumpCalled ==
    /\ pc = "returned"
    /\ \/ pc' = "compile_loop"
       \/ pc' = "compile_done" /\ parser' = "destroyed"

----------------------------------------------------------------------------
(* Growth of the string buffer.                                             *)

\* the text the step's vkd3d_string_buffer_vprintf call was given
PrintedText == SubSeq(appended'.text, Len(appended.text) + 1, Len(appended'.text))

\* the step is a vkd3d_string_buffer_vprintf call
Printing ==
    /\ appended'.calls = appended.calls + 1
    /\ Len(appended'.text) >= Len(appended.text)
    /\ SubSeq(appended'.text, 1, Len(appended.text)) = appended.text

\* the text does not fit what is left of the buffer with its terminator
NeedsGrowth == Len(PrintedText) >= string_buffer.buffer_size - string_buffer.content_size

\* vkd3d_realloc failed in this step for the first time
FirstFailure == appended.allocated /\ ~appended'.allocated

RECURSIVE DoubledFrom(_, _)
DoubledFrom(old_size, new_size) ==
    /\ new_size > old_size
    /\ new_size % 2 = 0
    /\ \/ new_size \div 2 = old_size
       \/ DoubledFrom(old_size, new_size \div 2)

\* content_size < buffer_size, the allocation has buffer_size bytes and
\* holds the terminator at content_size
WellFormed(b) ==
    /\ b.content_size >= 0
    /\ b.content_size < b.buffer_size
    /\ Len(b.buffer) = b.buffer_size
    /\ b.buffer[b.content_size + 1] = NUL

C36_Terminates == (vprintf.pc = "format") ~> (vprintf.pc = "returned")
=============================================================================
